---- MODULE Spec2Model ----
(***************************************************************************)
(* Verification model of the WhatsApp productivity assistant               *)
(* (mbragi/todo-app-bot): the webhook dispatcher, the onboarding state     *)
(* machine, the user directory and the WaSender delivery client.           *)
(*                                                                         *)
(* Strings that the code inspects (message texts, names, e-mails, time     *)
(* zones) are sequences of one-character strings, so that trim(),          *)
(* toLowerCase(), startsWith(), slice() and the e-mail pattern are         *)
(* computed as the code computes them.  Reply texts and log texts that     *)
(* the code never inspects are opaque TLA+ strings.                        *)
(***************************************************************************)
EXTENDS Integers, Sequences, FiniteSets, TLC

VARIABLES
    users,          \* members of the set "users:set"
    settings,       \* uid -> hash "user:<uid>:settings" (fields tz, calendarId)
    profile,        \* uid -> hash "user:<uid>:profile" (fields name, email, phone)
    gcal,           \* uid -> hash "user:<uid>:gcal" (fields refresh_token, access_token)
    onboarding,     \* uid -> value of the string key "onboarding:<uid>": <<>> or <<json>>
    lastMessage,    \* uid -> value of the string key "last_message:<uid>": <<>> or <<ms>>
    now,            \* Date.now() in milliseconds
    resolves,       \* whether require("./users/onboarding") of the dispatcher resolves
    req,            \* the last webhook request handled and what the handler did
    call,           \* the last direct call of a service operation and its result
    hist,           \* uid -> the onboarding calls made since the last clean start
    send,           \* the state of the sendText call in progress
    history,        \* uid -> the Redis list "list:user:<uid>:history", head first
    procs           \* the asynchronous calls in flight, each with its position and locals

vars == <<users, settings, profile, gcal, onboarding, lastMessage, now,
          resolves, req, call, hist, send, history, procs>>

asyncVars == <<history, procs>>

storeVars == <<users, settings, profile, gcal, onboarding, lastMessage>>

(***************************************************************************)
(* Strings                                                                 *)
(***************************************************************************)

\* String.prototype.trim strips white space at both ends.
Whitespace == {" ", "\t"}

UpperToLower ==
    ("A" :> "a") @@ ("B" :> "b") @@ ("C" :> "c") @@ ("D" :> "d") @@
    ("E" :> "e") @@ ("F" :> "f") @@ ("G" :> "g") @@ ("H" :> "h") @@
    ("I" :> "i") @@ ("J" :> "j") @@ ("K" :> "k") @@ ("L" :> "l") @@
    ("M" :> "m") @@ ("N" :> "n") @@ ("O" :> "o") @@ ("P" :> "p") @@
    ("Q" :> "q") @@ ("R" :> "r") @@ ("S" :> "s") @@ ("T" :> "t") @@
    ("U" :> "u") @@ ("V" :> "v") @@ ("W" :> "w") @@ ("X" :> "x") @@
    ("Y" :> "y") @@ ("Z" :> "z")

SetMin(S) == CHOOSE x \in S : \A y \in S : x <= y
SetMax(S) == CHOOSE x \in S : \A y \in S : x >= y

Trim(s) ==
    LET keep == {i \in 1..Len(s) : s[i] \notin Whitespace}
    IN  IF keep = {} THEN <<>> ELSE SubSeq(s, SetMin(keep), SetMax(keep))

ToLowerCase(s) ==
    [i \in 1..Len(s) |-> IF s[i] \in DOMAIN UpperToLower THEN UpperToLower[s[i]] ELSE s[i]]

StartsWith(s, p) == Len(s) >= Len(p) /\ SubSeq(s, 1, Len(p)) = p

\* s.slice(n): the characters from index n (0-based) on.
Slice(s, n) == SubSeq(s, n + 1, Len(s))

\* /^[^\s@]+@[^\s@]+\.[^\s@]+$/.test(s)
EmailRegexTest(s) ==
    LET ats == {i \in 1..Len(s) : s[i] = "@"}
    IN  /\ \A i \in 1..Len(s) : s[i] \notin Whitespace
        /\ Cardinality(ats) = 1
        /\ \E p \in ats :
              /\ p > 1
              /\ \E q \in (p + 2)..(Len(s) - 1) : s[q] = "."

\* The literals the code compares texts with.
S_connect == <<"c","o","n","n","e","c","t">>
S_agenda  == <<"a","g","e","n","d","a">>
S_help    == <<"h","e","l","p">>
S_whoami  == <<"w","h","o","a","m","i">>
S_hi      == <<"h","i">>
S_hello   == <<"h","e","l","l","o">>
S_onboard == <<"o","n","b","o","a","r","d">>
S_set_tz  == <<"s","e","t"," ","t","z"," ">>
S_skip    == <<"s","k","i","p">>
S_primary == <<"p","r","i","m","a","r","y">>
\* process.env.TZ || "Africa/Lagos"
DefaultTz == <<"A","f","r","i","c","a","/","L","a","g","o","s">>

(***************************************************************************)
(* The store (src/store): sets, hashes and string keys                     *)
(***************************************************************************)

EmptyHash == [f \in {} |-> <<>>]

\* hget: hash[field] ?? null; an absent field is modelled by the empty
\* string's stand-in <<>> only through HHas, never by a null value.
HHas(h, f) == f \in DOMAIN h

HSet(h, f, v) == [g \in (DOMAIN h) \cup {f} |-> IF g = f THEN v ELSE h[g]]

\* JavaScript truthiness of hget's result: present and not the empty string.
HTruthy(h, f) == HHas(h, f) /\ h[f] # <<>>

\* The value read for a field that the code uses after "||": the stored
\* value when truthy, else the default.
HOr(h, f, default) == IF HTruthy(h, f) THEN h[f] ELSE default

Uids == {"u1", "u2"}

(***************************************************************************)
(* User directory (src/lib/config.js, users/service revision with await)   *)
(***************************************************************************)

\* Mutant: registration overwrites the stored settings with the defaults.
AddUserIfNewWritesOverwriting(us, st, uid) ==
    [users |-> us \cup {uid},
     settings |-> [st EXCEPT ![uid] =
                      HSet(HSet(st[uid], "tz", DefaultTz), "calendarId", S_primary)]]

\* addUserIfNew: the store after the call, and the value returned.
AddUserIfNewWrites(us, st, uid) ==
    LET s1 == IF ~HTruthy(st[uid], "tz")
              THEN HSet(st[uid], "tz", DefaultTz) ELSE st[uid]
        s2 == IF ~HTruthy(s1, "calendarId")
              THEN HSet(s1, "calendarId", S_primary) ELSE s1
    IN  [users |-> us \cup {uid}, settings |-> [st EXCEPT ![uid] = s2]]

\* Mutant: the defaults are written on every call, registered or not.
AddUserIfNewAlwaysDefaults(us, st, uid) ==
    [ret |-> uid \notin us,
     users |-> us \cup {uid},
     settings |-> [st EXCEPT ![uid] =
                      HSet(HSet(st[uid], "tz", DefaultTz), "calendarId", S_primary)]]

AddUserIfNew(us, st, uid) ==
    IF uid \notin us
    THEN [ret |-> TRUE,
          users |-> AddUserIfNewWrites(us, st, uid).users,
          settings |-> AddUserIfNewWrites(us, st, uid).settings]
    ELSE [ret |-> FALSE, users |-> us, settings |-> st]

GetSettings(st, uid) ==
    [tz |-> HOr(st[uid], "tz", DefaultTz),
     calendarId |-> HOr(st[uid], "calendarId", S_primary)]

\* Mutant: the hash is replaced by partial, so a field that was not given
\* is lost.
SetSettingsReplacesHash(st, uid, partial) ==
    [st EXCEPT ![uid] = [f \in {g \in DOMAIN partial : partial[g] # <<>>} |-> partial[f]]]

\* setSettings(uid, partial): partial is a hash of the fields given.
SetSettings(st, uid, partial) ==
    LET s1 == IF HTruthy(partial, "tz")
              THEN HSet(st[uid], "tz", partial["tz"]) ELSE st[uid]
        s2 == IF HTruthy(partial, "calendarId")
              THEN HSet(s1, "calendarId", partial["calendarId"]) ELSE s1
    IN  [st EXCEPT ![uid] = s2]

\* getUserProfile: null when the hash has no field; HasProfile is "profile
\* is not null".
HasProfile(pr, uid) == DOMAIN pr[uid] # {}

SaveUserProfile(pr, uid, p) ==
    LET p1 == IF HTruthy(p, "name") THEN HSet(pr[uid], "name", p["name"]) ELSE pr[uid]
        p2 == IF HTruthy(p, "email") THEN HSet(p1, "email", p["email"]) ELSE p1
        p3 == IF HTruthy(p, "phone") THEN HSet(p2, "phone", p["phone"]) ELSE p2
    IN  [pr EXCEPT ![uid] = p3]

HasCompletedOnboarding(pr, uid) ==
    HasProfile(pr, uid) /\ HTruthy(pr[uid], "name") /\ HTruthy(pr[uid], "email")

HasGoogleCalendarLinked(gc, uid) == HTruthy(gc[uid], "refresh_token")

(***************************************************************************)
(* Onboarding state machine (src/users/onboarding.js)                      *)
(***************************************************************************)

ASK_NAME  == "ask_name"
ASK_EMAIL == "ask_email"
ASK_PHONE == "ask_phone"
DONE      == "done"

\* JSON.stringify / JSON.parse of {state, data}: the stored value is the
\* document, wrapped; data holds string fields only, which JSON keeps.
JSONstringify(v) == [json |-> v]
JSONparse(s) == s.json

\* Mutant: the second object replaces the first.
SpreadSecondOnly(a, b) == b

\* { ...a, ...b }
Spread(a, b) == [f \in (DOMAIN a) \cup (DOMAIN b) |-> IF f \in DOMAIN b THEN b[f] ELSE a[f]]

GetOnboardingState(ob, uid) ==
    IF ob[uid] # <<>>
    THEN JSONparse(ob[uid][1])
    ELSE [state |-> DONE, data |-> EmptyHash]

SetOnboardingState(ob, uid, state, data) ==
    LET current == GetOnboardingState(ob, uid)
        newState == [state |-> state, data |-> Spread(current.data, data)]
    IN  [ob EXCEPT ![uid] = <<JSONstringify(newState)>>]

\* store.set(key, null)
\* Mutant: completion writes the first state instead of removing the record.
ClearOnboardingStateToAskName(ob, uid) ==
    [ob EXCEPT ![uid] = <<JSONstringify([state |-> ASK_NAME, data |-> EmptyHash])>>]

ClearOnboardingState(ob, uid) == [ob EXCEPT ![uid] = <<>>]

\* Mutant: every user counts as in onboarding.
IsInOnboardingAlways(ob, uid) == TRUE

IsInOnboarding(ob, uid) == GetOnboardingState(ob, uid).state # DONE

\* The validation rules of tryHandle.
\* Mutant: a one-character name is accepted.
NameValidOneCharacter(trimmedText) == ~(Len(trimmedText) < 1)
NameValid(trimmedText) == ~(Len(trimmedText) < 2)
EmailValid(trimmedText) == EmailRegexTest(trimmedText)
\* Mutant: "skip" recognised in lower case only.
PhoneOfCaseSensitive(trimmedText) == IF trimmedText = S_skip THEN <<>> ELSE trimmedText

PhoneOf(trimmedText) == IF ToLowerCase(trimmedText) = S_skip THEN <<>> ELSE trimmedText

Reply(message, arg, state) == [message |-> message, arg |-> arg, state |-> state]

\* tryHandle(uid, text): ret is <<>> for null and <<reply>> otherwise.
TryHandle(ob, pr, uid, text) ==
    LET current == GetOnboardingState(ob, uid)
        trimmedText == Trim(text)
        same(r) == [ret |-> r, onboarding |-> ob, profile |-> pr]
    IN  IF current.state = DONE THEN same(<<>>)
        ELSE IF current.state = ASK_NAME THEN
            IF ~NameValid(trimmedText)
            THEN same(<<Reply("Please provide your full name (at least 2 characters).",
                              <<>>, ASK_NAME)>>)
            ELSE [ret |-> <<Reply("Nice to meet you, ${trimmedText}! What's your email address?",
                                  trimmedText, ASK_EMAIL)>>,
                  onboarding |-> SetOnboardingState(ob, uid, ASK_EMAIL,
                                                    [f \in {"name"} |-> trimmedText]),
                  profile |-> pr]
        ELSE IF current.state = ASK_EMAIL THEN
            IF ~EmailValid(trimmedText)
            THEN same(<<Reply("Please provide a valid email address.", <<>>, ASK_EMAIL)>>)
            ELSE [ret |-> <<Reply("Great! What's your phone number? (You can skip this if you prefer)",
                                  <<>>, ASK_PHONE)>>,
                  onboarding |-> SetOnboardingState(ob, uid, ASK_PHONE,
                                                    [f \in {"email"} |-> trimmedText]),
                  profile |-> pr]
        ELSE IF current.state = ASK_PHONE THEN
            LET phone == PhoneOf(trimmedText)
                profileData == Spread(current.data, [f \in {"phone"} |-> phone])
            IN  [ret |-> <<Reply("Perfect! Welcome ${profileData.name}!",
                                 IF HHas(profileData, "name") THEN profileData["name"] ELSE <<>>,
                                 DONE)>>,
                 onboarding |-> ClearOnboardingState(ob, uid),
                 profile |-> SaveUserProfile(pr, uid, profileData)]
        ELSE same(<<>>)

WelcomePrompt == "Welcome! I'm your WhatsApp productivity assistant. To get started, what's your name?"

StartOnboarding(ob, uid) ==
    [ret |-> Reply(WelcomePrompt, <<>>, ASK_NAME),
     onboarding |-> SetOnboardingState(ob, uid, ASK_NAME, EmptyHash)]

(***************************************************************************)
(* Outbound delivery client (src/whatsapp/providers/wasender.js)           *)
(***************************************************************************)

MaxRetries == 3
RetryDelay == 1000
DefaultRetryAfter == 60

\* What one axios.post can end with: a 2xx response, an HTTP error response
\* (status, and the retry_after and message of its body when present), or an
\* error without a response (a transport error with its code).
Statuses == {429, 408, 500, 503, 400, 404, 304}
RetryAfters == {<<>>, <<0>>, <<30>>}
ProviderMessages == {<<>>, <<"Rate limited", " on the trial plan">>}
NetCodes == {"ECONNABORTED", "ETIMEDOUT", "ECONNRESET", "ENOTFOUND", "ECONNREFUSED"}

HttpOk == [kind |-> "ok"]
HttpError(status, retryAfter, message) ==
    [kind |-> "http", status |-> status, retryAfter |-> retryAfter, message |-> message]
NetError(code) == [kind |-> "net", code |-> code]

AttemptOutcomes ==
    {HttpOk}
    \cup {HttpError(429, ra, <<>>) : ra \in RetryAfters}
    \cup {HttpError(st, <<>>, m) : st \in Statuses \ {429}, m \in ProviderMessages}
    \cup {NetError(c) : c \in NetCodes}

\* Numbers as they are printed inside an error message.
NumStr ==
    (0 :> "0") @@ (30 :> "30") @@ (60 :> "60") @@
    (429 :> "429") @@ (408 :> "408") @@ (500 :> "500") @@ (503 :> "503") @@
    (400 :> "400") @@ (404 :> "404") @@ (304 :> "304")

\* error.message of the axios error.
AxiosMessage(o) ==
    IF o.kind = "http"
    THEN <<"Request failed with status code ", NumStr[o.status]>>
    ELSE <<o.code>>

\* Mutant: the provider's retry_after is ignored.
RetryAfterOfDefaultOnly(o) == DefaultRetryAfter

\* error.response.data?.retry_after || 60
RetryAfterOf(o) ==
    IF o.retryAfter # <<>> /\ o.retryAfter[1] # 0 THEN o.retryAfter[1] ELSE DefaultRetryAfter

\* this.retryDelay * Math.pow(2, attempt - 1)
Backoff(attempt) == RetryDelay * (2 ^ (attempt - 1))

\* Mutant: 408 is not retried.
RetryableStatusOnly5xx(status) == status >= 500

RetryableStatus(status) == status >= 500 \/ status = 408

ClientError(status) == status >= 400 /\ status < 500 /\ status # 408 /\ status # 429

RetryableCode(code) == code \in {"ECONNABORTED", "ETIMEDOUT", "ECONNRESET", "ENOTFOUND"}

RateLimitedMessage(o) ==
    <<"Rate limited", ". Try again in ", NumStr[RetryAfterOf(o)], " seconds.">>

ApiErrorMessage(o) ==
    <<"API error: ", NumStr[o.status], " - ">>
        \o (IF o.message # <<>> THEN o.message ELSE AxiosMessage(o))

FailedMessage(o) == <<"Failed to send message: ">> \o AxiosMessage(o)

\* A sendText call: attempt is the loop variable, requests counts the
\* axios.post calls made, waits lists the sleeps in milliseconds, outcomes
\* the results of the requests; phase is "attempting" before a request,
\* "sleeping" during this.sleep, "returned" or "thrown" at the end; mock is
\* TRUE when the API key is the test key.
SendBegin(mock) ==
    [phase |-> "attempting", attempt |-> 1, requests |-> 0, waits |-> <<>>,
     outcomes |-> <<>>, error |-> <<>>, mock |-> mock]

Sleep(st, ms) == [st EXCEPT !.phase = "sleeping", !.waits = Append(@, ms)]

\* Mutant: "continue" without the loop's attempt++.
WakeSameAttempt(st) == [st EXCEPT !.phase = "attempting"]

\* "continue": the loop's attempt++.
Wake(st) == [st EXCEPT !.phase = "attempting", !.attempt = @ + 1]

Throw(st, message) == [st EXCEPT !.phase = "thrown", !.error = message]

\* The branch taken for an error response that is not a 429.
\* Mutant: a permanent client error is retried like a server error.
OnErrorResponseRetryAll(st, o) ==
    IF st.attempt < MaxRetries
    THEN Sleep(st, Backoff(st.attempt))
    ELSE Throw(st, ApiErrorMessage(o))

OnErrorResponse(st, o) ==
    IF ClientError(o.status)
    THEN Throw(st, ApiErrorMessage(o))
    ELSE IF RetryableStatus(o.status) /\ st.attempt < MaxRetries
    THEN Sleep(st, Backoff(st.attempt))
    ELSE Throw(st, ApiErrorMessage(o))

\* One pass through the loop body with the request ending in o.
AttemptStep(st, o) ==
    LET s1 == [st EXCEPT !.requests = @ + 1, !.outcomes = Append(@, o)]
    IN  IF o.kind = "ok" THEN [s1 EXCEPT !.phase = "returned"]
        ELSE IF o.kind = "http" /\ o.status = 429 THEN
            IF s1.attempt < MaxRetries
            THEN Sleep(s1, RetryAfterOf(o) * 1000)
            ELSE Throw(s1, RateLimitedMessage(o))
        ELSE IF o.kind = "http" THEN OnErrorResponse(s1, o)
        ELSE IF RetryableCode(o.code) /\ s1.attempt < MaxRetries
        THEN Sleep(s1, Backoff(s1.attempt))
        ELSE Throw(s1, FailedMessage(o))

\* The mock reply of test mode: no request is made.
MockReturn(st) == [st EXCEPT !.phase = "returned"]

SendFinished(st) == st.phase \in {"returned", "thrown"}

\* sendText run to its end over the outcomes of its requests.
RECURSIVE RunSend(_, _)
RunSend(st, outs) ==
    IF SendFinished(st) \/ outs = <<>> THEN st
    ELSE LET s1 == AttemptStep(st, Head(outs))
         IN  RunSend(IF s1.phase = "sleeping" THEN Wake(s1) ELSE s1, Tail(outs))

\* Every way a sendText call can end.
SendTextRuns ==
    {MockReturn(SendBegin(TRUE))}
    \cup {RunSend(SendBegin(FALSE), outs) : outs \in [1..MaxRetries -> AttemptOutcomes]}

\* error.message.includes("Rate limited")
IncludesRateLimited(message) == \E i \in 1..Len(message) : message[i] = "Rate limited"

(***************************************************************************)
(* Command dispatcher: POST /webhook (final revision of routes/webhook.js) *)
(***************************************************************************)

MinInterval == 65000

\* Mutant: the text is not trimmed.
IsCommandUntrimmed(text) ==
    LET trimmedText == ToLowerCase(text)
    IN  \/ trimmedText = S_connect
        \/ trimmedText = S_agenda
        \/ trimmedText = S_help
        \/ trimmedText = S_whoami
        \/ StartsWith(trimmedText, S_set_tz)
        \/ trimmedText = S_hi
        \/ trimmedText = S_hello
        \/ trimmedText = S_onboard

IsCommand(text) ==
    LET trimmedText == ToLowerCase(Trim(text))
    IN  \/ trimmedText = S_connect
        \/ trimmedText = S_agenda
        \/ trimmedText = S_help
        \/ trimmedText = S_whoami
        \/ StartsWith(trimmedText, S_set_tz)
        \/ trimmedText = S_hi
        \/ trimmedText = S_hello
        \/ trimmedText = S_onboard

\* A payload: its event, and the sender and text of its message (<<>> when
\* the payload has none).
Body(event, from, text) == [event |-> event, from |-> from, text |-> text]

\* extractMessageData: null (<<>>) unless the event is a received message
\* with a non-empty sender and a non-empty text; the text is returned trimmed.
\* Mutant: the text is handed on as it came, untrimmed.
ExtractMessageDataUntrimmed(body) ==
    IF /\ body.event \in {"message.received", "messages.upsert", "messages.received"}
       /\ body.from # <<>>
       /\ body.text # <<>>
    THEN <<[from |-> body.from[1], text |-> body.text]>>
    ELSE <<>>

ExtractMessageData(body) ==
    IF /\ body.event \in {"message.received", "messages.upsert", "messages.received"}
       /\ body.from # <<>>
       /\ body.text # <<>>
    THEN <<[from |-> body.from[1], text |-> Trim(body.text)]>>
    ELSE <<>>

\* How a sendText call ends, as far as the dispatcher can tell: returned or
\* thrown, whether the thrown error is the client's own rate-limit failure
\* (429 on the last attempt), and whether its message includes "Rate limited".
SendEndKind(r) ==
    [thrown |-> r.phase = "thrown",
     by429 |-> r.phase = "thrown" /\ r.outcomes[Len(r.outcomes)].kind = "http"
                 /\ r.outcomes[Len(r.outcomes)].status = 429,
     includes |-> r.phase = "thrown" /\ IncludesRateLimited(r.error)]

SendEndKinds == {SendEndKind(r) : r \in SendTextRuns}

\* Mutant: the wrapper rethrows every error.
SendMessageSafelyRethrows(k) == IF ~k.thrown THEN "sent" ELSE "throws"

\* sendMessageSafely: true ("sent"), false ("rate_limited"), or the error
\* is rethrown ("throws").
SendMessageSafely(k) ==
    IF ~k.thrown THEN "sent"
    ELSE IF k.includes THEN "rate_limited"
    ELSE "throws"

\* The store as one record, as a handler sees it.
Store == [users |-> users, settings |-> settings, profile |-> profile, gcal |-> gcal,
          onboarding |-> onboarding, lastMessage |-> lastMessage]

\* One sendText call made through sendMessageSafely: how the call ended and
\* what the wrapper made of it.
Sent(k) == [end |-> k, result |-> SendMessageSafely(k)]

\* res.status(status).send(...): one more response, with this status.
Respond(status) == [status |-> status, responses |-> 1]

\* What a handler run did: the store it leaves, the branch it ended in, the
\* HTTP response it gave, the sendText calls it made, whether it called
\* startOnboarding and tryHandle, whether it reached the rate-limit check,
\* the time zone it gave to setSettings and the one it passed to
\* calendar.events.list (<<>> when there was no such call).
Out(s, path, response, sends, started, advanced, checkedRate, setTz, calTz) ==
    [store |-> s, path |-> path, status |-> response.status,
     responses |-> response.responses, sends |-> sends,
     started |-> started, advanced |-> advanced, checkedRate |-> checkedRate,
     setTz |-> setTz, calTz |-> calTz]

\* The status after the sends of a branch: a rethrown send error reaches the
\* handler's catch and is answered with 500.
StatusAfter(sends) ==
    IF sends # <<>> /\ sends[Len(sends)].result = "throws" THEN 500 ELSE 200

\* Line 219: the onboarding flow takes priority over all commands except connect.
OnboardingBranch(hasOnboarded, lower) == ~hasOnboarded /\ lower # S_connect

\* Line 266: lastMessageTime && now - lastMessageTime < minInterval
\* Mutant: a message at the very time of the last one is let through.
RateLimitedStrictlyLater(last, t) ==
    last # <<>> /\ last[1] # 0 /\ t - last[1] < MinInterval /\ t # last[1]

RateLimited(last, t) == last # <<>> /\ last[1] # 0 /\ t - last[1] < MinInterval

\* Mutant: the lookup always uses the default time zone.
ListEventsDefaultTz(s, uid, cal) ==
    [tz |-> DefaultTz,
     calendarId |-> GetSettings(s.settings, uid).calendarId,
     failed |-> cal = "fail"]

\* listEvents(uid, date): the time zone and calendar id of getSettings are
\* passed to calendar.events.list; cal is how the lookup ends.
ListEvents(s, uid, cal) ==
    [tz |-> GetSettings(s.settings, uid).tz,
     calendarId |-> GetSettings(s.settings, uid).calendarId,
     failed |-> cal = "fail"]

\* Mutant: starting onboarding drops the stored profile.
StartedOnboardingFresh(s, uid) ==
    [s EXCEPT !.onboarding = StartOnboarding(s.onboarding, uid).onboarding,
              !.profile[uid] = EmptyHash]

\* Lines 222 and 305: the store after startOnboarding(uid).
StartedOnboarding(s, uid) ==
    [s EXCEPT !.onboarding = StartOnboarding(s.onboarding, uid).onboarding]

\* Mutant: the onboard command restarts only a user who has not completed
\* onboarding.
OnboardCommandUnlessCompleted(s, uid) ==
    IF HasCompletedOnboarding(s.profile, uid) THEN s ELSE StartedOnboarding(s, uid)

\* Lines 303-308: the onboard command calls startOnboarding without looking
\* at the profile.
OnboardCommand(s, uid) == StartedOnboarding(s, uid)

\* Lines 278-405: command handling, after the rate-limit slot was taken.
\* k1 and k2 are the ends of the first and of the second sendText call, cal
\* the end of the calendar lookup.
ExecuteCommand(s, uid, msg, lower, k1, k2, cal) ==
    LET reply(st, path, started, setTz) ==
            Out(st, path, Respond(StatusAfter(<<Sent(k1)>>)), <<Sent(k1)>>,
                started, FALSE, TRUE, setTz, <<>>)
    IN  IF lower = S_hi \/ lower = S_hello THEN reply(s, "greeting", FALSE, <<>>)
        ELSE IF lower = S_connect THEN
            IF HasGoogleCalendarLinked(s.gcal, uid)
            THEN reply(s, "connect_already_linked", FALSE, <<>>)
            ELSE reply(s, "connect_auth_url", FALSE, <<>>)
        ELSE IF lower = S_onboard THEN
            reply(OnboardCommand(s, uid), "onboard", TRUE, <<>>)
        ELSE IF lower = S_agenda THEN
            IF ~HasGoogleCalendarLinked(s.gcal, uid)
            THEN reply(s, "agenda_not_linked", FALSE, <<>>)
            ELSE LET ev == ListEvents(s, uid, cal)
                     sends == IF ~ev.failed /\ Sent(k1).result = "throws"
                              THEN <<Sent(k1), Sent(k2)>>
                              ELSE <<Sent(k1)>>
                 IN  Out(s, IF ev.failed THEN "agenda_lookup_failed"
                            ELSE IF Len(sends) = 2 THEN "agenda_send_failed"
                            ELSE "agenda",
                         Respond(StatusAfter(sends)), sends, FALSE, FALSE, TRUE,
                         <<>>, <<ev.tz>>)
        ELSE IF lower = S_help THEN reply(s, "help", FALSE, <<>>)
        ELSE IF lower = S_whoami THEN
            IF HasProfile(s.profile, uid)
            THEN reply(s, "whoami", FALSE, <<>>)
            ELSE reply(s, "whoami_no_profile", FALSE, <<>>)
        ELSE IF StartsWith(lower, S_set_tz) THEN
            LET tz == Trim(Slice(msg, 7))
            IN  reply([s EXCEPT !.settings =
                          SetSettings(s.settings, uid, [f \in {"tz"} |-> tz])],
                      "set_tz", FALSE, <<tz>>)
        ELSE reply(s, "fallback", FALSE, <<>>)

\* Mutant: the time of the last message is stored by the first request only.
TakeSlotOnce(s, uid, t) ==
    IF s.lastMessage[uid] = <<>> THEN [s EXCEPT !.lastMessage[uid] = <<t>>] ELSE s

\* Line 276: store.set(lastMessageKey, now), before the command is handled.
TakeSlot(s, uid, t) == [s EXCEPT !.lastMessage[uid] = <<t>>]

\* Mutant: a rate-limited request returns without a response, as in the
\* earlier revision of the handler.
RateLimitReturnsSilently(s, uid, msg, lower, t, k1, k2, cal) ==
    IF RateLimited(s.lastMessage[uid], t)
    THEN Out(s, "rate_limited", [status |-> 0, responses |-> 0], <<>>,
             FALSE, FALSE, TRUE, <<>>, <<>>)
    ELSE ExecuteCommand(TakeSlot(s, uid, t), uid, msg, lower, k1, k2, cal)

\* Lines 260-276: the per-user rate limit, then the command.
RateLimitThenCommand(s, uid, msg, lower, t, k1, k2, cal) ==
    IF RateLimited(s.lastMessage[uid], t)
    THEN Out(s, "rate_limited", Respond(200), <<>>, FALSE, FALSE, TRUE, <<>>, <<>>)
    ELSE ExecuteCommand(TakeSlot(s, uid, t), uid, msg, lower, k1, k2, cal)

\* Mutant: the filter applies to users in onboarding.
NonCommandFilterInverted(msg, currentlyInOnboarding) ==
    ~IsCommand(msg) /\ currentlyInOnboarding

\* Line 249: only commands go on, unless the user is in onboarding.
NonCommandFilter(msg, currentlyInOnboarding) ==
    ~IsCommand(msg) /\ ~currentlyInOnboarding

\* Lines 206-255 and on: the onboarding gate, the non-command filter and the
\* rest, with the handler's locals as parameters.  res tells whether
\* require("./users/onboarding") at line 203 resolves; when it does not, the
\* error reaches the catch.
Gate(s, uid, msg, lower, hasOnboarded, currentlyInOnboarding, t, res, k1, k2, cal) ==
    LET handling == OnboardingBranch(hasOnboarded, lower) /\ currentlyInOnboarding
        th == TryHandle(s.onboarding, s.profile, uid, msg)
    IN  IF ~res
        THEN Out(s, "require_failed", Respond(500), <<>>, FALSE, FALSE, FALSE, <<>>, <<>>)
        ELSE IF ~hasOnboarded /\ ~currentlyInOnboarding /\ ~IsCommand(msg)
        THEN Out(s, "ignored_not_onboarded", Respond(200), <<>>, FALSE, FALSE, FALSE, <<>>, <<>>)
        ELSE IF OnboardingBranch(hasOnboarded, lower) /\ ~currentlyInOnboarding
        THEN Out(StartedOnboarding(s, uid),
                 "onboarding_start", Respond(StatusAfter(<<Sent(k1)>>)), <<Sent(k1)>>,
                 TRUE, FALSE, FALSE, <<>>, <<>>)
        ELSE IF handling /\ th.ret # <<>>
        THEN Out([s EXCEPT !.onboarding = th.onboarding, !.profile = th.profile],
                 "onboarding_reply", Respond(StatusAfter(<<Sent(k1)>>)), <<Sent(k1)>>,
                 FALSE, TRUE, FALSE, <<>>, <<>>)
        ELSE IF NonCommandFilter(msg, currentlyInOnboarding)
        THEN Out(s, "ignored_non_command", Respond(200), <<>>, FALSE, FALSE, FALSE, <<>>, <<>>)
        ELSE [RateLimitThenCommand(s, uid, msg, lower, t, k1, k2, cal)
                 EXCEPT !.advanced = handling]

\* Line 192: addUserIfNew(uid), on the store record.
Registered(s0, uid) ==
    [s0 EXCEPT !.users = AddUserIfNew(s0.users, s0.settings, uid).users,
               !.settings = AddUserIfNew(s0.users, s0.settings, uid).settings]

\* Lines 190-204: registration and the locals hasOnboarded and
\* currentlyInOnboarding, for a message (uid, text) extracted from the
\* payload and handled at time t.
HandleMessage(s0, uid, text, t, res, k1, k2, cal) ==
    Gate(Registered(s0, uid), uid, text, ToLowerCase(text),
         HasCompletedOnboarding(s0.profile, uid), IsInOnboarding(s0.onboarding, uid),
         t, res, k1, k2, cal)

\* router.post("/") as a whole: the test event and a payload without a
\* message are acknowledged at once; a message is handled.
PostWebhookResult(s0, body, t, res, k1, k2, cal) ==
    LET messageData == ExtractMessageData(body)
    IN  IF body.event = "webhook.test"
        THEN Out(s0, "test", Respond(200), <<>>, FALSE, FALSE, FALSE, <<>>, <<>>)
        ELSE IF messageData = <<>>
        THEN Out(s0, "no_message", Respond(200), <<>>, FALSE, FALSE, FALSE, <<>>, <<>>)
        ELSE HandleMessage(s0, messageData[1].from, messageData[1].text, t, res, k1, k2, cal)

\* exchangeCodeForTokens: the tokens are stored; the block that would copy
\* the Google e-mail into the profile and the calendar id calls
\* getUserProfile, which this module never imports, so its ReferenceError is
\* caught at line 454 before anything else is written.
ExchangeCodeForTokens(gc, uid) ==
    [gc EXCEPT ![uid] = HSet(HSet(@, "refresh_token", <<"r">>), "access_token", <<"a">>)]

(***************************************************************************)
(* Initial state: an empty store, nothing handled yet                      *)
(***************************************************************************)

NoReq  == [kind |-> "none"]
NoCall == [op |-> "none"]
NoSend == [phase |-> "idle"]

\* The callers that can have an asynchronous call in flight.
Pids == {"p1", "p2"}
NoProcs == [p \in Pids |-> [pc |-> "idle"]]

\* hist[uid]: clean is TRUE while the onboarding run in progress was started
\* by startOnboarding for a user with no profile and no onboarding record;
\* accepted are the raw texts tryHandle accepted in that run, rejects counts
\* the texts it rejected; dir logs the directory calls for the user ("new" and
\* "existing" for addUserIfNew returning true and false, "set" for a
\* setSettings that gave a time zone); setTz is the time zone last given to
\* setSettings, <<>> when none was; prev is the time and the number of
\* sendText calls of the last message handled for the user, <<>> when none was.
NoHist ==
    [clean |-> FALSE, accepted |-> <<>>, rejects |-> 0, dir |-> <<>>, setTz |-> <<>>,
     prev |-> <<>>]

TickShort == 30000

StoreInit ==
    /\ users = {}
    /\ settings = [u \in Uids |-> EmptyHash]
    /\ profile = [u \in Uids |-> EmptyHash]
    /\ gcal = [u \in Uids |-> EmptyHash]
    /\ onboarding = [u \in Uids |-> <<>>]
    /\ lastMessage = [u \in Uids |-> <<>>]

HarnessInit ==
    /\ now = TickShort
    /\ req = NoReq
    /\ call = NoCall
    /\ hist = [u \in Uids |-> NoHist]
    /\ send = NoSend
    /\ history = [u \in Uids |-> <<>>]
    /\ procs = NoProcs

(***************************************************************************)
(* Direct calls of the onboarding operations                               *)
(***************************************************************************)

MaxRejects == 2

\* Raw texts passed to tryHandle.
T_Jo_padded  == <<" ","J","o"," ">>
T_J          == <<"J">>
T_email      == <<"j","o","@","x",".","c","o">>
T_bad_email  == <<"j","o","@","x">>
T_Skip       == <<"S","k","i","p">>
T_555        == <<"5","5","5">>
T_blank      == <<" ">>

OnboardingTexts == {T_Jo_padded, T_J, T_email, T_bad_email, T_Skip, T_555, T_blank}

\* The users who answer the prompts; the other users are only started.
Answering == {"u1"}

CallStartOnboarding(uid) ==
    LET r == StartOnboarding(onboarding, uid)
        wasClean == ~HasProfile(profile, uid) /\ onboarding[uid] = <<>>
    IN  /\ onboarding' = r.onboarding
        /\ call' = [op |-> "startOnboarding", uid |-> uid, ret |-> r.ret]
        /\ hist' = [hist EXCEPT ![uid] = [@ EXCEPT !.clean = wasClean,
                                                   !.accepted = <<>>,
                                                   !.rejects = 0]]
        /\ UNCHANGED <<users, settings, profile, gcal, lastMessage, now, resolves, req, send, asyncVars>>

CallTryHandle(uid, text) ==
    LET before == GetOnboardingState(onboarding, uid)
        r == TryHandle(onboarding, profile, uid, text)
        rejected == r.ret # <<>> /\ r.ret[1].state = before.state
    IN  /\ rejected => hist[uid].rejects < MaxRejects
        /\ onboarding' = r.onboarding
        /\ profile' = r.profile
        /\ call' = [op |-> "tryHandle", uid |-> uid, text |-> text, ret |-> r.ret]
        /\ hist' = [hist EXCEPT ![uid] =
                        IF r.ret = <<>> THEN @
                        ELSE IF rejected THEN [@ EXCEPT !.rejects = @ + 1]
                        ELSE [@ EXCEPT !.accepted = Append(@, text)]]
        /\ UNCHANGED <<users, settings, gcal, lastMessage, now, resolves, req, send, asyncVars>>

InitOnboarding == StoreInit /\ HarnessInit /\ resolves = TRUE

NextOnboarding ==
    \/ \E uid \in Uids : CallStartOnboarding(uid)
    \/ \E uid \in Answering : \E text \in OnboardingTexts : CallTryHandle(uid, text)

SpecOnboarding == InitOnboarding /\ [][NextOnboarding]_vars

(***************************************************************************)
(* Direct calls of the user directory operations                           *)
(***************************************************************************)

MaxDirLog == 3

Tz_UTC   == <<"U","T","C">>
Tz_Tokyo == <<"A","s","i","a","/","T","o","k","y","o">>
Cal_work == <<"w","o","r","k">>

Partials ==
    { [f \in {"tz"} |-> Tz_UTC],
      [f \in {"tz"} |-> Tz_Tokyo],
      [f \in {"calendarId"} |-> Cal_work],
      [f \in {"tz"} |-> <<>>] }

CallAddUserIfNew(uid) ==
    LET r == AddUserIfNew(users, settings, uid)
    IN  /\ Len(hist[uid].dir) < MaxDirLog
        /\ users' = r.users
        /\ settings' = r.settings
        /\ call' = [op |-> "addUserIfNew", uid |-> uid, ret |-> r.ret,
                     pre |-> [users |-> users, settings |-> settings]]
        /\ hist' = [hist EXCEPT ![uid].dir =
                        Append(@, IF r.ret THEN "new" ELSE "existing")]
        /\ UNCHANGED <<profile, gcal, onboarding, lastMessage, now, resolves, req, send, asyncVars>>

CallSetSettings(uid, partial) ==
    /\ HTruthy(partial, "tz") => Len(hist[uid].dir) < MaxDirLog
    /\ settings' = SetSettings(settings, uid, partial)
    /\ call' = [op |-> "setSettings", uid |-> uid, partial |-> partial,
                 ret |-> GetSettings(settings', uid)]
    /\ hist' = IF HTruthy(partial, "tz")
               THEN [hist EXCEPT ![uid].dir = Append(@, "set"),
                                 ![uid].setTz = <<partial["tz"]>>]
               ELSE hist
    /\ UNCHANGED <<users, profile, gcal, onboarding, lastMessage, now, resolves, req, send, asyncVars>>

InitDirectory == StoreInit /\ HarnessInit /\ resolves = TRUE

NextDirectory ==
    \/ \E uid \in Uids : CallAddUserIfNew(uid)
    \/ \E uid \in Uids : \E partial \in Partials : CallSetSettings(uid, partial)

SpecDirectory == InitDirectory /\ [][NextDirectory]_vars

(***************************************************************************)
(* Claims about the onboarding run and the user directory                  *)
(***************************************************************************)

CompletedCleanRun(u) == hist[u].clean /\ Len(hist[u].accepted) = 3

RegisterReturns(u) == SelectSeq(hist[u].dir, LAMBDA e : e # "set")

\* C7: the first addUserIfNew for a uid returns true and every later one
\* false; a call that returns false writes nothing, so a time zone given to
\* setSettings stays the stored value across re-registration.
C7_RegisterIsIdempotent ==
    /\ \A u \in Uids :
          LET r == RegisterReturns(u)
          IN  /\ Len(r) >= 1 => r[1] = "new"
              /\ \A i \in 2..Len(r) : r[i] = "existing"
              /\ hist[u].setTz # <<>> =>
                    /\ HHas(settings[u], "tz")
                    /\ settings[u]["tz"] = hist[u].setTz[1]
                    /\ GetSettings(settings, u).tz = hist[u].setTz[1]
    /\ (call.op = "addUserIfNew" /\ ~call.ret) =>
          (users = call.pre.users /\ settings = call.pre.settings)

\* Registered, then setSettings({tz: "UTC"}), then registered again.
C7_Witness ==
    \E u \in Uids :
        /\ hist[u].dir = <<"new", "set", "existing">>
        /\ call.op = "addUserIfNew" /\ call.uid = u /\ ~call.ret
        /\ settings[u]["tz"] = Tz_UTC

(***************************************************************************)
(* One sendText call, request by request                                   *)
(***************************************************************************)

SendStart(mock) ==
    /\ send.phase = "idle"
    /\ send' = SendBegin(mock)
    /\ UNCHANGED <<storeVars, now, resolves, req, call, hist, asyncVars>>

SendMock ==
    /\ send.phase = "attempting" /\ send.mock
    /\ send' = MockReturn(send)
    /\ UNCHANGED <<storeVars, now, resolves, req, call, hist, asyncVars>>

SendRequest(o) ==
    /\ send.phase = "attempting" /\ ~send.mock
    /\ send.attempt <= MaxRetries
    /\ send' = AttemptStep(send, o)
    /\ UNCHANGED <<storeVars, now, resolves, req, call, hist, asyncVars>>

SendWake ==
    /\ send.phase = "sleeping"
    /\ send' = Wake(send)
    /\ UNCHANGED <<storeVars, now, resolves, req, call, hist, asyncVars>>

InitSend == StoreInit /\ HarnessInit /\ resolves = TRUE

NextSend ==
    \/ \E mock \in BOOLEAN : SendStart(mock)
    \/ SendMock
    \/ \E o \in AttemptOutcomes : SendRequest(o)
    \/ SendWake

SpecSend == InitSend /\ [][NextSend]_vars

\* An error response with a 5xx or a 408 status.
ServerOrTimeout(o) == o.kind = "http" /\ (o.status = 408 \/ (o.status >= 500 /\ o.status <= 599))

\* C5: in a sendText call whose requests end with a 5xx or 408 response, the
\* call goes on after the first and the second such failure, sleeping 1000 ms
\* and then 2000 ms; when the third request succeeds the call has made
\* exactly 3 requests and returns, and when the third request fails the same
\* way the call throws an "API error" after 3 requests.
C5_RetriesServerErrorsWithBackoff ==
    LET o == send.outcomes
        n == Len(o)
    IN  (send.phase # "idle" /\ ~send.mock /\ n >= 1 /\ \A i \in 1..n : i < 3 => ServerOrTimeout(o[i]))
        => /\ n <= 3
           /\ n < 3 => /\ ~SendFinished(send)
                       /\ send.requests = n
                       /\ send.waits = [i \in 1..n |-> 1000 * (2 ^ (i - 1))]
           /\ (n = 3 /\ o[3].kind = "ok")
                => /\ send.phase = "returned"
                   /\ send.requests = 3
                   /\ send.waits = <<1000, 2000>>
           /\ (n = 3 /\ ServerOrTimeout(o[3]))
                => /\ send.phase = "thrown"
                   /\ send.requests = 3
                   /\ send.waits = <<1000, 2000>>
                   /\ send.error = ApiErrorMessage(o[3])

C5_Witness ==
    /\ send.phase = "returned" /\ ~send.mock
    /\ send.requests = 3
    /\ send.outcomes[1].kind = "http" /\ send.outcomes[1].status = 503
    /\ send.outcomes[2].kind = "http" /\ send.outcomes[2].status = 408
    /\ send.waits = <<1000, 2000>>

\* An error response with a 4xx status other than 408 and 429.
PermanentClientError(o) ==
    o.kind = "http" /\ o.status >= 400 /\ o.status <= 499 /\ o.status \notin {408, 429}

\* C6: a 4xx response other than 408 and 429 ends the sendText call at the
\* request that received it: the call has thrown an "API error", no request
\* follows and no sleep follows the failed request, so a 404 on the first
\* request leaves exactly 1 request and no sleep.
C6_ClientErrorsAreNotRetried ==
    (send.phase # "idle" /\ ~send.mock)
    => \A i \in 1..Len(send.outcomes) :
          PermanentClientError(send.outcomes[i])
          => /\ i = Len(send.outcomes)
             /\ send.phase = "thrown"
             /\ send.requests = i
             /\ Len(send.waits) = i - 1
             /\ send.error = ApiErrorMessage(send.outcomes[i])

C6_Witness ==
    /\ send.phase = "thrown"
    /\ send.outcomes = <<HttpError(404, <<>>, <<>>)>>
    /\ send.requests = 1
    /\ send.waits = <<>>

(***************************************************************************)
(* The webhook at work: requests, the OAuth callback, time                 *)
(***************************************************************************)

MaxNow == 95000

\* Raw texts of inbound messages.
T_Connect_padded == <<" ","C","o","n","n","e","c","t"," ">>
T_agenda         == <<"a","g","e","n","d","a">>
T_onboard        == <<"o","n","b","o","a","r","d">>
T_set_tz_UTC     == <<"s","e","t"," ","t","z"," ","U","T","C">>
T_SET_TZ_Tokyo   == <<"S","E","T"," ","T","Z"," "," ","A","s","i","a","/","T","o","k","y","o"," ">>

WebhookTexts ==
    {T_Connect_padded, T_agenda, T_onboard, T_set_tz_UTC, T_SET_TZ_Tokyo, T_email}

\* The users who write to the bot and link a calendar; the others stay silent.
Talkers == {"u1"}

Bodies ==
    {Body("webhook.test", <<>>, <<>>),
     Body("message.sent", <<"u1">>, T_agenda),
     Body("messages.upsert", <<>>, T_agenda),
     Body("messages.upsert", <<"u1">>, <<>>)}
    \cup {Body("messages.upsert", <<u>>, t) : u \in Talkers, t \in WebhookTexts}

CalOutcomes == {"events", "fail"}

\* A sendText call that returned.
Delivered == SendEndKind(MockReturn(SendBegin(TRUE)))

\* The state a handled request leaves behind.
Commit(body, r) ==
    LET isMessage == r.path \notin {"test", "no_message"}
        uid == body.from[1]
    IN  /\ users' = r.store.users
        /\ settings' = r.store.settings
        /\ profile' = r.store.profile
        /\ gcal' = r.store.gcal
        /\ onboarding' = r.store.onboarding
        /\ lastMessage' = r.store.lastMessage
        /\ req' = IF isMessage
                  THEN [kind |-> "message", uid |-> uid, text |-> body.text,
                        at |-> now, path |-> r.path, status |-> r.status,
                        responses |-> r.responses, sends |-> r.sends,
                        started |-> r.started, advanced |-> r.advanced,
                        checkedRate |-> r.checkedRate, calTz |-> r.calTz]
                  ELSE [kind |-> r.path, status |-> r.status,
                        responses |-> r.responses, sends |-> r.sends]
        /\ hist' = IF isMessage
                   THEN [hist EXCEPT
                           ![uid].setTz = IF r.setTz # <<>> THEN r.setTz ELSE @,
                           ![uid].prev = <<[at |-> now, sends |-> Len(r.sends)]>>]
                   ELSE hist
        /\ UNCHANGED <<now, resolves, call, send, asyncVars>>

\* The ends to choose from for a call: those of sendText when the call is
\* made.
EndsFor(called) == IF called THEN SendEndKinds ELSE {Delivered}

\* One POST /webhook, handled from the first line to the response.  The ends
\* of the sendText calls and of the calendar lookup are chosen for the calls
\* the handler makes; plan is the run in which every call succeeds.
PostWebhookWith(body, plan) ==
    \E k1 \in EndsFor(plan.sends # <<>>) :
    \E cal \in (IF plan.calTz = <<>> THEN {"events"} ELSE CalOutcomes) :
    \E k2 \in EndsFor(plan.calTz # <<>> /\ cal # "fail" /\ SendMessageSafely(k1) = "throws") :
        Commit(body, PostWebhookResult(Store, body, now, resolves, k1, k2, cal))

PostWebhook(body) ==
    PostWebhookWith(body, PostWebhookResult(Store, body, now, resolves,
                                            Delivered, Delivered, "events"))

\* GET /oauth/callback with a code Google accepts, for the uid in the state.
OAuthCallback(uid) ==
    /\ gcal' = ExchangeCodeForTokens(gcal, uid)
    /\ UNCHANGED <<users, settings, profile, onboarding, lastMessage, now, resolves,
                   req, call, hist, send, asyncVars>>

\* Date.now() moves on.
Tick(d) ==
    /\ now + d <= MaxNow
    /\ now' = now + d
    /\ UNCHANGED <<storeVars, resolves, req, call, hist, send, asyncVars>>

\* The handler requires "./users/onboarding" relative to its own directory,
\* while its other imports are relative to the parent ("../users/onboarding"):
\* whether the path resolves depends on where the file is deployed, so both
\* cases are initial states.
Init == StoreInit /\ HarnessInit /\ resolves \in BOOLEAN

Next ==
    \/ \E body \in Bodies : PostWebhook(body)
    \/ \E uid \in Talkers : OAuthCallback(uid)
    \/ \E d \in {TickShort, MinInterval} : Tick(d)

Spec == Init /\ [][Next]_vars

(***************************************************************************)
(* Properties of the webhook                                               *)
(***************************************************************************)

\* A step in which the webhook handled a message of user u.
Handled(u) ==
    /\ req'.kind = "message" /\ req'.uid = u
    /\ <<users, settings, profile, onboarding, lastMessage, req, hist>>'
         # <<users, settings, profile, onboarding, lastMessage, req, hist>>

\* The text as the user meant it: trimmed and in lower case.
Meant(text) == ToLowerCase(Trim(text))

\* C1: whatever the user's onboarding status, a message whose trimmed,
\* lower-cased text is "connect" is never taken by the onboarding branch:
\* neither startOnboarding nor tryHandle is called, the onboarding record is
\* unchanged, and the request goes on to the rate-limit check and the connect
\* command.
C1_ConnectBypassesOnboarding ==
    [][\A u \in Uids :
         (Handled(u) /\ Meant(req'.text) = S_connect)
         => /\ ~req'.started
            /\ ~req'.advanced
            /\ onboarding'[u] = onboarding[u]
            /\ req'.checkedRate
            /\ req'.path \in {"rate_limited", "connect_auth_url", "connect_already_linked"}]_vars

\* C2: a message that is not a command, from a user who is not registered,
\* has no complete profile and is not in onboarding, causes no send, registers
\* the user with the default settings, leaves the onboarding state DONE and
\* is answered with 200.
C2_UnknownNonCommandIsIgnored ==
    [][\A u \in Uids :
         (/\ Handled(u)
          /\ u \notin users
          /\ ~HasCompletedOnboarding(profile, u)
          /\ ~IsInOnboarding(onboarding, u)
          /\ Meant(req'.text) \notin {S_connect, S_agenda, S_help, S_whoami, S_hi, S_hello, S_onboard}
          /\ ~StartsWith(Meant(req'.text), S_set_tz))
         => /\ req'.sends = <<>>
            /\ u \in users'
            /\ HHas(settings'[u], "tz") /\ settings'[u]["tz"] = DefaultTz
            /\ HHas(settings'[u], "calendarId") /\ settings'[u]["calendarId"] = S_primary
            /\ GetOnboardingState(onboarding', u).state = DONE
            /\ req'.status = 200]_vars

\* C4: when the previous message of a user led to a sendText call and the
\* next one is handled less than minInterval later, the next one makes no
\* sendText call and is answered with 200.
C4_OneSendPerInterval ==
    [][\A u \in Uids :
         (/\ Handled(u)
          /\ hist[u].prev # <<>>
          /\ hist[u].prev[1].sends > 0
          /\ now - hist[u].prev[1].at < MinInterval)
         => /\ req'.sends = <<>>
            /\ req'.status = 200]_vars

\* V of "set tz V": what follows the 7 characters of the prefix, trimmed.
TzArgument(text) == Trim(SubSeq(Trim(text), 8, Len(Trim(text))))

\* The request in req is a message of user u.
LastFrom(u) == req.kind = "message" /\ req.uid = u

\* C8: an executed "set tz V" gives setSettings the value V, case kept and
\* trimmed; from then on getSettings(uid).tz is the value of the user's last
\* executed "set tz", and it is the time zone an executed "agenda" passes to
\* the calendar lookup.
C8_SetTzReachesCalendarLookup ==
    \A u \in Uids :
        /\ (/\ LastFrom(u) /\ req.checkedRate /\ req.path # "rate_limited"
            /\ StartsWith(Meant(req.text), S_set_tz))
           => /\ req.path = "set_tz"
              /\ TzArgument(req.text) # <<>>
              /\ hist[u].setTz = <<TzArgument(req.text)>>
        /\ (LastFrom(u) /\ req.path = "set_tz") => StartsWith(Meant(req.text), S_set_tz)
        /\ hist[u].setTz # <<>> => GetSettings(settings, u).tz = hist[u].setTz[1]
        /\ (LastFrom(u) /\ Meant(req.text) = S_agenda /\ req.checkedRate
                /\ req.path # "rate_limited")
           => \/ req.path = "agenda_not_linked" /\ req.calTz = <<>>
              \/ /\ req.path \in {"agenda", "agenda_lookup_failed", "agenda_send_failed"}
                 /\ req.calTz = <<GetSettings(settings, u).tz>>

C8_Witness ==
    /\ LastFrom("u1") /\ req.path = "agenda"
    /\ hist["u1"].setTz = <<Tz_Tokyo>>
    /\ req.calTz = <<Tz_Tokyo>>

\* The error of the last sendText call of the request in req escaped the
\* send wrapper.
SendErrorEscaped == req.sends # <<>> /\ req.sends[Len(req.sends)].result = "throws"

\* C9: a handled request has exactly one response; the response is 500 when
\* an error reached the handler's catch (the require that failed, a send
\* error the wrapper rethrew) and 200 on every other path.
C9_ExactlyOneResponse ==
    req.kind # "none"
    => /\ req.responses = 1
       /\ req.status \in {200, 500}
       /\ req.kind \in {"test", "no_message"} => req.status = 200 /\ req.sends = <<>>
       /\ req.kind = "message"
            => (req.status = 500 <=> (req.path = "require_failed" \/ SendErrorEscaped))

C9_Witness ==
    /\ LastFrom("u1") /\ req.path = "rate_limited"
    /\ req.responses = 1 /\ req.status = 200

\* C10: when a sendText call of a request ended with the client's rate-limit
\* error (a 429 on the last attempt), the wrapper caught it, no error reached
\* the handler's catch and the request was answered with 200.
C10_RateLimitFailureIsAcknowledged ==
    (req.kind = "message" /\ \E i \in 1..Len(req.sends) : req.sends[i].end.by429)
    => /\ \A i \in 1..Len(req.sends) :
             req.sends[i].end.by429 => req.sends[i].result = "rate_limited"
       /\ ~SendErrorEscaped
       /\ req.status = 200

C10_Witness ==
    /\ LastFrom("u1") /\ req.path = "connect_auth_url"
    /\ req.sends # <<>> /\ req.sends[1].end.by429
    /\ req.status = 200

\* A sendText call of the request in req ended with an error that is not the
\* client's rate-limit error.
DeliveryFailedAt(i) == req.sends[i].end.thrown /\ ~req.sends[i].end.by429

\* C11: on every path but agenda, a message whose sendText call throws an
\* error other than the rate-limit error is still answered with 200.
C11_DeliveryFailureIsSwallowed ==
    (/\ req.kind = "message"
     /\ req.path \notin {"agenda", "agenda_lookup_failed", "agenda_send_failed"}
     /\ \E i \in 1..Len(req.sends) : DeliveryFailedAt(i))
    => req.status = 200

\* One sendText call under the scheduling of the event loop: a pending
\* request ends, a timer set by sleep fires.
SpecSendFair ==
    /\ InitSend
    /\ [][NextSend]_vars
    /\ WF_vars(SendMock)
    /\ WF_vars(\E o \in AttemptOutcomes : SendRequest(o))
    /\ WF_vars(SendWake)

\* The safety half of C12, on the call in progress.
AttemptsBounded ==
    send.phase # "idle"
    => /\ send.requests <= 3
       /\ send.requests = Len(send.outcomes)
       /\ \A i \in 1..Len(send.outcomes) :
             (send.outcomes[i].kind = "ok" \/ PermanentClientError(send.outcomes[i]))
             => i = Len(send.outcomes) /\ SendFinished(send)
       /\ send.requests = 3 => SendFinished(send)
       /\ send.phase = "returned"
            => send.mock \/ send.outcomes[Len(send.outcomes)].kind = "ok"
       /\ send.phase = "thrown"
            => send.error # <<>> /\ send.outcomes[Len(send.outcomes)].kind # "ok"

\* C12: whatever the requests end with, a sendText call makes at most 3
\* requests, none after a success or after a 4xx other than 408 and 429, and
\* it ends: it returns or it throws.
C12_SendTextTerminates ==
    /\ []AttemptsBounded
    /\ [](send.phase \in {"attempting", "sleeping"} => <>SendFinished(send))

C12_Witness ==
    /\ send.phase = "thrown" /\ send.requests = 3
    /\ send.outcomes[1].kind = "http" /\ send.outcomes[1].status = 429
    /\ send.outcomes[2].kind = "net"
    /\ send.outcomes[3].kind = "http" /\ send.outcomes[3].status = 503

\* An error response with status 429.
TooManyRequests(o) == o.kind = "http" /\ o.status = 429

\* What C13 says about a call whose 429 responses ask for secs(o) seconds:
\* after a 429 at request 1 or 2 the call sleeps that long and goes on;
\* after a 429 at request 3 it throws the rate-limit error naming that
\* number, and makes no further request.
RateLimitHandling(secs(_)) ==
    (send.phase # "idle" /\ ~send.mock)
    => \A i \in 1..Len(send.outcomes) :
          TooManyRequests(send.outcomes[i])
          => /\ i < 3 => /\ Len(send.waits) >= i
                         /\ send.waits[i] = secs(send.outcomes[i]) * 1000
                         /\ i = Len(send.outcomes) => ~SendFinished(send)
             /\ i = 3 => /\ send.phase = "thrown"
                         /\ send.requests = 3
                         /\ Len(send.waits) = 2
                         /\ send.error = <<"Rate limited", ". Try again in ",
                                           NumStr[secs(send.outcomes[i])], " seconds.">>

\* retry_after as the claim reads it: the provider's value, 60 when absent.
RetryAfterOrSixty(o) == IF o.retryAfter # <<>> THEN o.retryAfter[1] ELSE 60

\* retry_after as amended: 60 also when the provider's value is 0.
PositiveRetryAfterOrSixty(o) ==
    IF o.retryAfter # <<>> /\ o.retryAfter[1] > 0 THEN o.retryAfter[1] ELSE 60

\* C13 as claimed: the wait after a 429 is the provider's retry_after, 60
\* when absent.
C13_WaitsProviderRetryAfter == RateLimitHandling(RetryAfterOrSixty)

\* C13 as amended: the wait after a 429 is the provider's retry_after, 60
\* when it is absent or 0; a 429 at request 3 throws the rate-limit error
\* with that number.
C13_WaitsPositiveRetryAfter == RateLimitHandling(PositiveRetryAfterOrSixty)

C13_Witness ==
    /\ send.phase = "thrown" /\ send.requests = 3
    /\ send.outcomes[1] = HttpError(429, <<>>, <<>>)
    /\ send.outcomes[2] = HttpError(429, <<0>>, <<>>)
    /\ send.outcomes[3] = HttpError(429, <<30>>, <<>>)
    /\ send.waits = <<60000, 60000>>
    /\ send.error = <<"Rate limited", ". Try again in ", "30", " seconds.">>

\* An attempt that ended without an HTTP response.
TransportError(o) == o.kind = "net"

\* C14: a transport-level error at request 1 or 2 is followed by a sleep of
\* 1000 * 2^(attempt-1) ms and the call goes on; at request 3 the call throws
\* the delivery failure.
C14_TransportErrorsAreRetried ==
    (send.phase # "idle" /\ ~send.mock)
    => \A i \in 1..Len(send.outcomes) :
          TransportError(send.outcomes[i])
          => /\ i < 3 => /\ Len(send.waits) >= i
                         /\ send.waits[i] = 1000 * (2 ^ (i - 1))
                         /\ i = Len(send.outcomes) => ~SendFinished(send)
             /\ i = 3 => /\ send.phase = "thrown"
                         /\ send.error = FailedMessage(send.outcomes[i])

(***************************************************************************)
(* Direct calls of the command classifier                                  *)
(***************************************************************************)

\* The texts isCommand is called with: every core below, as written, in
\* upper case and capitalised, alone and between leading and trailing
\* white space.
ToUpperCase(s) ==
    [i \in 1..Len(s) |->
        IF \E c \in DOMAIN UpperToLower : UpperToLower[c] = s[i]
        THEN CHOOSE c \in DOMAIN UpperToLower : UpperToLower[c] = s[i]
        ELSE s[i]]

Capitalised(s) == IF s = <<>> THEN s ELSE SubSeq(ToUpperCase(s), 1, 1) \o Slice(s, 1)

ClassifierCores ==
    {S_connect, S_agenda, S_help, S_whoami, S_hi, S_hello, S_onboard,
     S_set_tz \o <<"u","t","c">>,
     S_set_tz,
     <<"s","e","t"," ","t","z">>,
     <<"s","e","t"," "," ","t","z"," ","u","t","c">>,
     <<"s","e","t","t","z"," ","u","t","c">>,
     <<"s","e","t">>,
     <<"h","e","l","p"," ","m","e">>,
     <<"h","i","!">>,
     <<"c","o","n","n","e","c">>,
     <<"a"," ","g","e","n","d","a">>,
     <<"j","o">>,
     <<>>}

ClassifierPadsLeft == {<<>>, <<"\t", " ">>}
ClassifierPadsRight == {<<>>, <<" ">>}

ClassifierTexts ==
    {l \o c \o r : l \in ClassifierPadsLeft, r \in ClassifierPadsRight,
                   c \in UNION {{k, ToUpperCase(k), Capitalised(k)} : k \in ClassifierCores}}

CallIsCommand(text) ==
    /\ call' = [op |-> "isCommand", text |-> text, ret |-> IsCommand(text)]
    /\ UNCHANGED <<users, settings, profile, gcal, onboarding, lastMessage, now,
                   resolves, req, hist, send, asyncVars>>

InitClassifier == StoreInit /\ HarnessInit /\ resolves = TRUE

NextClassifier ==
    \/ \E text \in ClassifierTexts : CallIsCommand(text)
    \/ \E uid \in Uids : CallStartOnboarding(uid)

SpecClassifier == InitClassifier /\ [][NextClassifier]_vars

\* The command words of C15.
CommandWords == {S_connect, S_agenda, S_help, S_whoami, S_hi, S_hello, S_onboard}

\* The classification C15 states for a text.
ClassifiedAsCommand(text) ==
    LET folded == Trim(ToLowerCase(text))
    IN  \/ folded \in CommandWords
        \/ /\ Len(folded) >= 7
           /\ \A i \in 1..7 : folded[i] = S_set_tz[i]

\* The result of the last isCommand call is the classification of its text.
ClassifiesAsStated == call.op = "isCommand" => (call.ret <=> ClassifiedAsCommand(call.text))

\* C15: isCommand(text) is true exactly when the trimmed, lower-cased text is
\* one of connect, agenda, help, whoami, hi, hello, onboard or starts with
\* "set tz ", whatever the store holds, and a call of it changes nothing in
\* the store.
C15_IsCommandClassifies ==
    /\ []ClassifiesAsStated
    /\ [][call'.op = "isCommand" /\ call' # call => UNCHANGED storeVars]_vars

C15_Witness ==
    /\ call.op = "isCommand"
    /\ call.text = <<"\t"," ","S","E","T"," ","T","Z"," ","U","T","C"," ">>
    /\ call.ret = TRUE
    /\ onboarding["u1"] # <<>>

\* C16: after startOnboarding(uid), whatever the onboarding state and the
\* collected fields were, the user is in ASK_NAME with no collected field and
\* the call has returned the welcome prompt.
C16_StartDiscardsCollectedFields ==
    call.op = "startOnboarding"
    => /\ GetOnboardingState(onboarding, call.uid).state = ASK_NAME
       /\ GetOnboardingState(onboarding, call.uid).data = EmptyHash
       /\ call.ret.message = WelcomePrompt
       /\ call.ret.state = ASK_NAME

\* A step that is a tryHandle call for a user who is in onboarding.
TryHandleStep == call'.op = "tryHandle" /\ hist' # hist

\* C17: a tryHandle call with a name whose trimmed length is below 2 in
\* ASK_NAME, or with a text that does not match the e-mail pattern in
\* ASK_EMAIL, returns the re-prompt of that step and leaves the onboarding
\* record and the profile as they were; a tryHandle call in ASK_PHONE
\* completes the onboarding whatever the text is.
C17_InvalidInputReprompts ==
    [][TryHandleStep =>
        LET u == call'.uid
            cur == GetOnboardingState(onboarding, u)
            t == Trim(call'.text)
        IN  /\ (cur.state = ASK_NAME /\ Len(t) < 2)
                => /\ onboarding' = onboarding
                   /\ profile' = profile
                   /\ call'.ret # <<>>
                   /\ call'.ret[1].state = ASK_NAME
                   /\ call'.ret[1].message =
                          "Please provide your full name (at least 2 characters)."
            /\ (cur.state = ASK_EMAIL /\ ~EmailRegexTest(t))
                => /\ onboarding' = onboarding
                   /\ profile' = profile
                   /\ call'.ret # <<>>
                   /\ call'.ret[1].state = ASK_EMAIL
                   /\ call'.ret[1].message = "Please provide a valid email address."
            /\ cur.state = ASK_PHONE
                => /\ call'.ret # <<>>
                   /\ call'.ret[1].state = DONE
                   /\ GetOnboardingState(onboarding', u).state = DONE
                   /\ HasProfile(profile', u)
    ]_vars

C17_Witness ==
    /\ call.op = "tryHandle" /\ call.uid = "u1" /\ call.text = T_bad_email
    /\ call.ret # <<>> /\ call.ret[1].state = ASK_EMAIL
    /\ GetOnboardingState(onboarding, "u1") =
           [state |-> ASK_EMAIL, data |-> [f \in {"name"} |-> <<"J","o">>]]
    /\ hist["u1"].rejects = 2

\* A failure that sendText retries while attempts remain: a 5xx or 408
\* response, or one of the transport errors it retries.
RetryableFailure(o) == ServerOrTimeout(o) \/ (o.kind = "net" /\ RetryableCode(o.code))

\* C18: a send whose every attempt fails with a retryable server or network
\* error makes 3 attempts and sleeps 1000, 2000 and 4000 ms, 7000 ms in
\* total.
C18_BackoffWaitsTotalSevenSeconds ==
    (/\ SendFinished(send) /\ ~send.mock
     /\ \A i \in 1..Len(send.outcomes) : RetryableFailure(send.outcomes[i]))
    => /\ send.requests = 3
       /\ send.waits = <<1000, 2000, 4000>>

\* C19: a command from a user who is in
\* ASK_NAME, ASK_EMAIL or ASK_PHONE and has no complete profile is processed
\* as a command: it is not passed to tryHandle as the answer to the prompt
\* and does not change what onboarding has collected.
C19_CommandsAreProcessedMidOnboarding ==
    [][\A u \in Uids :
         (/\ Handled(u)
          /\ IsInOnboarding(onboarding, u)
          /\ ~HasCompletedOnboarding(profile, u)
          /\ \/ Meant(req'.text) \in CommandWords
             \/ StartsWith(Meant(req'.text), S_set_tz))
         => /\ ~req'.advanced
            /\ req'.path # "onboarding_reply"
            /\ GetOnboardingState(onboarding', u).data
                 = GetOnboardingState(onboarding, u).data]_vars

\* The default addUserIfNew writes for a settings field.
DefaultOf(f) == IF f = "tz" THEN DefaultTz ELSE S_primary

\* C20: an addUserIfNew call keeps every time zone and calendarId that was
\* stored before it; a field it adds holds the default, was absent before,
\* and is added only by the call that registers the user; the settings of
\* other users are untouched.
C20_RegisterKeepsStoredSettings ==
    call.op = "addUserIfNew"
    => LET u == call.uid
           before == call.pre.settings[u]
           after == settings[u]
       IN  /\ \A f \in {"tz", "calendarId"} :
                 /\ HTruthy(before, f) => (HHas(after, f) /\ after[f] = before[f])
                 /\ (HHas(after, f) /\ ~HHas(before, f))
                        => (call.ret /\ u \notin call.pre.users /\ after[f] = DefaultOf(f))
                 /\ (call.ret /\ ~HHas(before, f)) => HHas(after, f)
           /\ ~call.ret => after = before
           /\ \A v \in Uids \ {u} : settings[v] = call.pre.settings[v]

\* A time zone stored by setSettings before the user was registered survives
\* the registering call, which adds the default calendarId only.
C20_Witness ==
    /\ call.op = "addUserIfNew" /\ call.ret /\ call.uid = "u1"
    /\ call.pre.settings["u1"] = [f \in {"tz"} |-> Tz_Tokyo]
    /\ settings["u1"]["tz"] = Tz_Tokyo
    /\ settings["u1"]["calendarId"] = S_primary

(***************************************************************************)
(* Concurrent addUserIfNew calls over the cache store                      *)
(***************************************************************************)

\* The user each caller registers.
RegistrantOf == [p \in Pids |-> IF p = "p1" THEN "u1" ELSE "u2"]

\* addUserIfNew(uid) is entered: nothing is read before the first await.
RegisterBegin(p) ==
    /\ procs[p].pc = "idle"
    /\ Len(hist[RegistrantOf[p]].dir) < MaxDirLog
    /\ procs' = [procs EXCEPT ![p] = [pc |-> "sismember", uid |-> RegistrantOf[p]]]
    /\ UNCHANGED <<storeVars, now, resolves, req, call, hist, send, history>>

\* store.sismember: cache.get of the set and includes(member).
RegisterSismember(p) ==
    /\ procs[p].pc = "sismember"
    /\ procs' = [procs EXCEPT ![p].pc =
                    IF procs[p].uid \in users THEN "return_false" ELSE "sadd_get"]
    /\ UNCHANGED <<storeVars, now, resolves, req, call, hist, send, history>>

\* store.sadd, first await: cache.get of the set into the local array.
RegisterSaddGet(p) ==
    /\ procs[p].pc = "sadd_get"
    /\ procs' = [procs EXCEPT ![p] = [pc |-> "sadd_set", uid |-> procs[p].uid, set |-> users]]
    /\ UNCHANGED <<storeVars, now, resolves, req, call, hist, send, history>>

\* store.sadd, second await: cache.set of the local array with the member
\* pushed, when the local array did not hold it.
RegisterSaddSet(p) ==
    /\ procs[p].pc = "sadd_set"
    /\ users' = IF procs[p].uid \notin procs[p].set
                THEN procs[p].set \cup {procs[p].uid} ELSE users
    /\ procs' = [procs EXCEPT ![p] = [pc |-> "defaults", uid |-> procs[p].uid]]
    /\ UNCHANGED <<settings, profile, gcal, onboarding, lastMessage,
                   now, resolves, req, call, hist, send, history>>

\* The default settings: hget and hset of the caller's own settings hash,
\* which no other caller of this specification touches.
RegisterDefaults(p) ==
    /\ procs[p].pc = "defaults"
    /\ settings' = AddUserIfNewWrites(users, settings, procs[p].uid).settings
    /\ procs' = [procs EXCEPT ![p].pc = "return_true"]
    /\ UNCHANGED <<users, profile, gcal, onboarding, lastMessage,
                   now, resolves, req, call, hist, send, history>>

\* addUserIfNew returns.
RegisterReturn(p) ==
    /\ procs[p].pc \in {"return_true", "return_false"}
    /\ hist' = [hist EXCEPT ![procs[p].uid].dir =
                   Append(@, IF procs[p].pc = "return_true" THEN "new" ELSE "existing")]
    /\ procs' = [procs EXCEPT ![p] = [pc |-> "idle"]]
    /\ UNCHANGED <<storeVars, now, resolves, req, call, send, history>>

InitRegister == StoreInit /\ HarnessInit /\ resolves = TRUE

NextRegister ==
    \/ \E p \in Pids : RegisterBegin(p)
    \/ \E p \in Pids : RegisterSismember(p)
    \/ \E p \in Pids : RegisterSaddGet(p)
    \/ \E p \in Pids : RegisterSaddSet(p)
    \/ \E p \in Pids : RegisterDefaults(p)
    \/ \E p \in Pids : RegisterReturn(p)

SpecRegister == InitRegister /\ [][NextRegister]_vars

\* C21: a uid for which addUserIfNew has returned is a member of users:set
\* in every later state, whatever registrations of other users run at the
\* same time, and addUserIfNew returns true for it at most once.
C21_RegisteredStaysRegistered ==
    \A u \in Uids :
        /\ Len(hist[u].dir) >= 1 => u \in users
        /\ Cardinality({i \in 1..Len(hist[u].dir) : hist[u].dir[i] = "new"}) <= 1

(***************************************************************************)
(* The interaction history (src/agenda/goals.js over src/store/memory.js)  *)
(***************************************************************************)

HistoryCap == 50

\* The entries added by the caller that makes one call after the other, and
\* by the caller whose calls overlap them.
MaxHistoryCalls == 52
MaxOverlapping == 1

AddedBy(p) == IF "added" \in DOMAIN procs[p] THEN procs[p].added ELSE 0

\* Mutant: the trim keeps one entry more.
LTrimInclusive(list, start, stop) ==
    SubSeq(list, start + 1, IF Len(list) < stop + 2 THEN Len(list) ELSE stop + 2)

\* LTRIM key start stop, for 0 <= start <= stop.
LTrim(list, start, stop) ==
    SubSeq(list, start + 1, IF Len(list) < stop + 1 THEN Len(list) ELSE stop + 1)

\* MULTI / LPUSH / LTRIM 0 maxSize-1 / EXEC: the list after the transaction
\* and the length LPUSH replied.
LpushCapped(list, value, maxSize) ==
    [list |-> LTrim(<<value>> \o list, 0, maxSize - 1), ret |-> Len(list) + 1]

\* The entry most recently added to the history, <<>> when none was.
LastAdded == IF call.op = "addToHistory" THEN call.added ELSE <<>>

\* addToHistory(uid, type, content) builds the interaction and queues the
\* transaction.
HistoryBegin(p, type) ==
    /\ procs[p].pc = "idle"
    /\ AddedBy(p) < (IF p = "p1" THEN MaxHistoryCalls ELSE MaxOverlapping)
    /\ procs' = [procs EXCEPT ![p] =
                    [pc |-> "exec", uid |-> "u1", added |-> AddedBy(p),
                     interaction |-> [type |-> type, by |-> p, n |-> AddedBy(p) + 1]]]
    /\ UNCHANGED <<storeVars, now, resolves, req, call, hist, send, history>>

\* multi.exec() runs the transaction on the server and addToHistory returns.
HistoryExec(p) ==
    LET r == LpushCapped(history[procs[p].uid], procs[p].interaction, HistoryCap)
    IN  /\ procs[p].pc = "exec"
        /\ history' = [history EXCEPT ![procs[p].uid] = r.list]
        /\ call' = [op |-> "addToHistory", uid |-> procs[p].uid, ret |-> r.ret,
                    added |-> <<procs[p].interaction>>]
        /\ procs' = [procs EXCEPT ![p] = [pc |-> "idle", added |-> procs[p].added + 1]]
        /\ UNCHANGED <<storeVars, now, resolves, req, hist, send>>

\* multi.exec() rejects: the transaction did not run, the error is logged and
\* the call returns 0.
HistoryExecFails(p) ==
    /\ procs[p].pc = "exec"
    /\ call' = [op |-> "addToHistory", uid |-> procs[p].uid, ret |-> 0,
                added |-> LastAdded]
    /\ procs' = [procs EXCEPT ![p] = [pc |-> "idle", added |-> procs[p].added]]
    /\ UNCHANGED <<storeVars, now, resolves, req, hist, send, history>>

InitHistory == StoreInit /\ HarnessInit /\ resolves = TRUE

NextHistory ==
    \/ \E p \in Pids : \E type \in {"command"} : HistoryBegin(p, type)
    \/ \E p \in Pids : HistoryExec(p)
    \/ \E p \in Pids : HistoryExecFails(p)

SpecHistory == InitHistory /\ [][NextHistory]_vars

\* C22: whatever addToHistory calls were made for a user, overlapping or
\* not, the user's history list holds at most 50 entries and its head is the
\* entry added last.
C22_HistoryIsCapped ==
    \A u \in Uids :
        /\ Len(history[u]) <= 50
        /\ (LastAdded # <<>> /\ call.uid = u)
              => (history[u] # <<>> /\ Head(history[u]) = LastAdded[1])

\* The list is full, entries have been dropped, and the overlapping call's
\* entry is in the list behind later ones.
C22_Witness ==
    /\ Len(history["u1"]) = 50
    /\ AddedBy("p1") = 52
    /\ call.op = "addToHistory" /\ call.ret = 51
    /\ \E i \in 2..50 : history["u1"][i].by = "p2"
    /\ history["u1"][1].by = "p1"

\* A recognized command other than connect.
CommandOtherThanConnect(text) ==
    \/ Meant(text) \in CommandWords \ {S_connect}
    \/ StartsWith(Meant(text), S_set_tz)

\* C23: a command other than connect from a user without a complete profile
\* who is not in onboarding starts onboarding, sends the welcome prompt and
\* nothing else, and is acknowledged with 200 without the command being
\* executed: no time zone is set, no calendar is looked up and the time of
\* the last send is left alone.  When the user is in onboarding the text is
\* passed to tryHandle and its reply is sent.
C23_CommandsStartOnboarding ==
    [][\A u \in Uids :
         (/\ Handled(u)
          /\ ~HasCompletedOnboarding(profile, u)
          /\ CommandOtherThanConnect(req'.text))
         => /\ ~IsInOnboarding(onboarding, u)
                => /\ req'.started
                   /\ req'.path = "onboarding_start"
                   /\ GetOnboardingState(onboarding', u).state = ASK_NAME
                   /\ Len(req'.sends) = 1
                   /\ req'.status = 200
                   /\ hist'[u].setTz = hist[u].setTz
                   /\ req'.calTz = <<>>
                   /\ lastMessage'[u] = lastMessage[u]
            /\ IsInOnboarding(onboarding, u)
                => /\ req'.advanced
                   /\ Len(req'.sends) = 1]_vars

\* A step in which the handler reached the rate-limit check for user u less
\* than minInterval after the stored time of the last message.
StoppedByRateLimit(u) ==
    /\ Handled(u)
    /\ req'.checkedRate
    /\ lastMessage[u] # <<>>
    /\ now - lastMessage[u][1] < 65000

\* C24: a request stopped by the per-user rate limit sends nothing and
\* leaves the store as it was: the time of the last message, the settings,
\* the onboarding record and the profile are unchanged, whatever the command.
C24_RateLimitedRequestChangesNothing ==
    [][\A u \in Uids :
         StoppedByRateLimit(u)
         => /\ req'.sends = <<>>
            /\ lastMessage' = lastMessage
            /\ settings' = settings
            /\ onboarding' = onboarding
            /\ profile' = profile
            /\ users' = users
            /\ gcal' = gcal]_vars

\* "set tz UTC" arrived inside the interval and the stored time zone is not UTC.
C24_Witness ==
    /\ req.kind = "message" /\ req.uid = "u1"
    /\ req.text = T_set_tz_UTC
    /\ req.checkedRate /\ req.sends = <<>>
    /\ lastMessage["u1"] # <<>> /\ req.at - lastMessage["u1"][1] < 65000
    /\ GetSettings(settings, "u1").tz # Tz_UTC

\* A step in which the handler reached the rate-limit check for user u and
\* was not stopped by it.
PassedRateLimit(u) ==
    /\ Handled(u)
    /\ req'.checkedRate
    /\ ~(lastMessage[u] # <<>> /\ now - lastMessage[u][1] < 65000)

\* C25: a request that passes the rate-limit check stores the current time
\* as the time of the last message before it calls sendText, so the stored
\* time is the request's time however the send ends, failures and provider
\* rate limits included.
C25_SlotIsTakenBeforeTheSend ==
    [][\A u \in Uids :
         PassedRateLimit(u)
         => /\ lastMessage'[u] = <<now>>
            /\ Len(req'.sends) >= 1]_vars

\* The send failed, the request was answered with 500 and the slot is taken.
C25_Witness ==
    /\ req.kind = "message" /\ req.uid = "u1" /\ req.checkedRate
    /\ Len(req.sends) = 1
    /\ req.sends[1].end.thrown /\ ~req.sends[1].end.by429
    /\ req.status = 500
    /\ lastMessage["u1"] = <<req.at>>

\* C26: the handling of one inbound message calls sendText at most once, on
\* every path, the agenda path with a failing lookup or a failing reply send
\* included.
C26_AtMostOneSendPerMessage ==
    req.kind = "message" => Len(req.sends) <= 1

\* C27: a text that is not a command, from a user with a complete profile
\* whose onboarding state is DONE, is ignored: no sendText call, nothing in
\* the store changes, the time of the last message included, and the
\* request is answered with 200.
C27_OnboardedNonCommandIsIgnored ==
    [][\A u \in Uids :
         (/\ Handled(u)
          /\ HasCompletedOnboarding(profile, u)
          /\ GetOnboardingState(onboarding, u).state = DONE
          /\ Meant(req'.text) \notin CommandWords
          /\ ~StartsWith(Meant(req'.text), S_set_tz))
         => /\ req'.sends = <<>>
            /\ req'.status = 200
            /\ lastMessage' = lastMessage
            /\ settings' = settings
            /\ onboarding' = onboarding
            /\ profile' = profile
            /\ users' = users
            /\ gcal' = gcal]_vars

C27_Witness ==
    /\ req.kind = "message" /\ req.uid = "u1" /\ req.text = T_email
    /\ HasCompletedOnboarding(profile, "u1")
    /\ GetOnboardingState(onboarding, "u1").state = DONE
    /\ req.sends = <<>> /\ req.status = 200
    /\ ~req.advanced

(***************************************************************************)
(* Concurrent webhook handlers for one user, await by await                *)
(***************************************************************************)

\* The trimmed texts of the concurrent messages.
HandlerTexts == {T_email, T_agenda, T_onboard, S_connect}

\* Lines 183-192: the message is extracted and the user registered.
HandlerBegin(p, text) ==
    LET s == Registered(Store, "u1")
    IN  /\ procs[p].pc = "idle"
        /\ users' = s.users
        /\ settings' = s.settings
        /\ procs' = [procs EXCEPT ![p] = [pc |-> "hasCompletedOnboarding",
                                           uid |-> "u1", text |-> text]]
        /\ UNCHANGED <<profile, gcal, onboarding, lastMessage,
                       now, resolves, req, call, hist, send, history>>

\* Line 200: const hasOnboarded = await hasCompletedOnboarding(uid)
HandlerHasOnboarded(p) ==
    /\ procs[p].pc = "hasCompletedOnboarding"
    /\ procs' = [procs EXCEPT ![p] =
                    [pc |-> "isInOnboarding", uid |-> procs[p].uid, text |-> procs[p].text,
                     hasOnboarded |-> HasCompletedOnboarding(profile, procs[p].uid)]]
    /\ UNCHANGED <<storeVars, now, resolves, req, call, hist, send, history>>

\* Line 204: const currentlyInOnboarding = await isInOnboarding(uid); seen
\* is the onboarding record the answer was read from.
HandlerIsInOnboarding(p) ==
    /\ procs[p].pc = "isInOnboarding"
    /\ procs' = [procs EXCEPT ![p] =
                    [pc |-> "gate", uid |-> procs[p].uid, text |-> procs[p].text,
                     hasOnboarded |-> procs[p].hasOnboarded,
                     currentlyInOnboarding |-> IsInOnboarding(onboarding, procs[p].uid),
                     seen |-> onboarding[procs[p].uid]]]
    /\ UNCHANGED <<storeVars, now, resolves, req, call, hist, send, history>>

\* The store is written as a handler step leaves it.
HandlerCommit(s) ==
    /\ users' = s.users
    /\ settings' = s.settings
    /\ profile' = s.profile
    /\ gcal' = s.gcal
    /\ onboarding' = s.onboarding
    /\ lastMessage' = s.lastMessage

\* Lines 206-258 with the locals read earlier, on the store as it is now:
\* startOnboarding or tryHandle and the filter.  A request these lines let
\* through has changed nothing and goes on to the rate limit.
HandlerGateWith(p, r, ret) ==
    /\ HandlerCommit(IF r.checkedRate THEN Store ELSE r.store)
    /\ procs' = [procs EXCEPT ![p] =
                    [pc |-> IF r.checkedRate THEN "lastMessage" ELSE "respond",
                     uid |-> procs[p].uid, text |-> procs[p].text,
                     hasOnboarded |-> procs[p].hasOnboarded,
                     currentlyInOnboarding |-> procs[p].currentlyInOnboarding,
                     sameRecord |-> onboarding[procs[p].uid] = procs[p].seen,
                     path |-> IF r.checkedRate THEN "rate_limit" ELSE r.path,
                     advanced |-> r.advanced,
                     ret |-> IF r.advanced THEN ret ELSE <<>>,
                     checkedRate |-> r.checkedRate,
                     lastMessageTime |-> <<>>, now |-> now,
                     sends |-> IF r.checkedRate THEN 0 ELSE Len(r.sends),
                     status |-> IF r.checkedRate THEN 0 ELSE r.status]]
    /\ UNCHANGED <<now, resolves, req, call, hist, send, history>>

HandlerGate(p) ==
    /\ procs[p].pc = "gate"
    /\ HandlerGateWith(p,
          Gate(Store, procs[p].uid, procs[p].text, ToLowerCase(procs[p].text),
               procs[p].hasOnboarded, procs[p].currentlyInOnboarding,
               now, TRUE, Delivered, Delivered, "events"),
          TryHandle(onboarding, profile, procs[p].uid, procs[p].text).ret)

\* Lines 262-263: lastMessageTime = await store.get(lastMessageKey) and
\* now = Date.now().
HandlerLastMessage(p) ==
    /\ procs[p].pc = "lastMessage"
    /\ procs' = [procs EXCEPT ![p].pc = "rate_limit",
                               ![p].lastMessageTime = lastMessage[procs[p].uid],
                               ![p].now = now]
    /\ UNCHANGED <<storeVars, now, resolves, req, call, hist, send, history>>

\* Mutant: the check reads the stored time again when it is made.
LastMessageTimeReread(p) == lastMessage[procs[p].uid]

\* The lastMessageTime local of the handler.
LastMessageTime(p) == procs[p].lastMessageTime

\* Lines 266-405: the check on the locals, then store.set and the command on
\* the store as it is now.
HandlerCommandWith(p, r) ==
    /\ HandlerCommit(IF r.path = "rate_limited" THEN Store ELSE r.store)
    /\ procs' = [procs EXCEPT ![p].pc = "respond",
                               ![p].path = r.path,
                               ![p].sends = Len(r.sends),
                               ![p].status = r.status]
    /\ UNCHANGED <<now, resolves, req, call, hist, send, history>>

HandlerCommand(p) ==
    /\ procs[p].pc = "rate_limit"
    /\ HandlerCommandWith(p,
          RateLimitThenCommand([Store EXCEPT !.lastMessage[procs[p].uid] = LastMessageTime(p)],
                               procs[p].uid, procs[p].text, ToLowerCase(procs[p].text),
                               procs[p].now, Delivered, Delivered, "events"))

\* res.status(200).send("OK")
HandlerRespond(p) ==
    /\ procs[p].pc = "respond"
    /\ procs' = [procs EXCEPT ![p] = [pc |-> "idle"]]
    /\ UNCHANGED <<storeVars, now, resolves, req, call, hist, send, history>>

InitHandlers == StoreInit /\ HarnessInit /\ resolves = TRUE

NextHandlers ==
    \/ \E p \in Pids : \E text \in HandlerTexts : HandlerBegin(p, text)
    \/ \E p \in Pids : HandlerHasOnboarded(p)
    \/ \E p \in Pids : HandlerIsInOnboarding(p)
    \/ \E p \in Pids : HandlerGate(p)
    \/ \E p \in Pids : HandlerLastMessage(p)
    \/ \E p \in Pids : HandlerCommand(p)
    \/ \E p \in Pids : HandlerRespond(p)

SpecHandlers == InitHandlers /\ [][NextHandlers]_vars

\* A handler that observed inOnboarding = true for a user it found not
\* onboarded, and has called tryHandle.
CalledTryHandle(p) ==
    /\ procs[p].pc = "respond"
    /\ ~procs[p].hasOnboarded
    /\ procs[p].currentlyInOnboarding
    /\ procs[p].advanced

\* C28 as claimed: whenever a handler that observed inOnboarding = true for
\* a not-yet-onboarded user calls tryHandle, tryHandle returns a reply and
\* the request ends in the onboarding branch, other handlers for the same
\* user running at the same time or not.
C28_TryHandleAlwaysReplies ==
    \A p \in Pids :
        CalledTryHandle(p) => (procs[p].ret # <<>> /\ procs[p].path = "onboarding_reply")

\* C28 as amended: the same, for a handler that calls tryHandle while the
\* user's onboarding record is still the one it observed.
C28_TryHandleRepliesOnObservedRecord ==
    \A p \in Pids :
        (CalledTryHandle(p) /\ procs[p].sameRecord)
        => (procs[p].ret # <<>> /\ procs[p].path = "onboarding_reply")

\* A handler got its reply from tryHandle while another handler for the same
\* user was between its reads and its own tryHandle call.
C28_Witness ==
    /\ CalledTryHandle("p1") /\ procs["p1"].sameRecord
    /\ procs["p1"].ret # <<>> /\ procs["p1"].ret[1].state = DONE
    /\ procs["p2"].pc = "gate" /\ procs["p2"].currentlyInOnboarding

C30_CompletedStaysCompleted ==
    [][\A u \in Uids :
         HasCompletedOnboarding(profile, u)
         => /\ HasCompletedOnboarding(profile', u)
            /\ HHas(profile'[u], "name") /\ profile'[u]["name"] # <<>>
            /\ HHas(profile'[u], "email") /\ profile'[u]["email"] # <<>>]_vars

\* The user completed onboarding, then restarted it with "onboard", linked
\* the calendar and set a time zone.
C30_Witness ==
    /\ HasCompletedOnboarding(profile, "u1")
    /\ IsInOnboarding(onboarding, "u1")
    /\ HasGoogleCalendarLinked(gcal, "u1")
    /\ hist["u1"].setTz # <<>>
    /\ req.kind = "message" /\ req.path = "set_tz"

\* C31: when the agenda command of a calendar-linked user is executed and
\* the calendar lookup fails, the failure notice is sent to the user and the
\* request is answered with 200, never with 500.
C31_LookupFailureIsReported ==
    (req.kind = "message" /\ req.path = "agenda_lookup_failed")
    => /\ req.status = 200
       /\ Len(req.sends) = 1
       /\ req.sends[1].result = "sent"

\* A handler that has made the rate-limit check and is about to respond.
CheckedRate(p) == procs[p].pc = "respond" /\ procs[p].checkedRate

\* The check as the handler makes it, on the values it read itself.
StoppedOnOwnRead(p) ==
    /\ procs[p].lastMessageTime # <<>>
    /\ procs[p].now - procs[p].lastMessageTime[1] < 65000

\* C32: the rate-limit check of a handler depends only on the time of the
\* last message it read itself, not on what a concurrent handler for the
\* same user has written since: a handler that read no time, or an old one,
\* passes and sends, so two concurrent handlers can both send within
\* minInterval, and each is answered with 200.
C32_ConcurrentHandlersBothPass ==
    \A p \in Pids :
        CheckedRate(p)
        => /\ procs[p].status = 200
           /\ StoppedOnOwnRead(p) => (procs[p].sends = 0 /\ procs[p].path = "rate_limited")
           /\ ~StoppedOnOwnRead(p) => (procs[p].sends >= 1 /\ procs[p].path # "rate_limited")

\* Both handlers of the same user's "connect" read no stored time, passed
\* the check and sent at the same time.
C32_Witness ==
    /\ \A p \in Pids :
          /\ CheckedRate(p)
          /\ procs[p].uid = "u1" /\ procs[p].text = S_connect
          /\ procs[p].lastMessageTime = <<>>
          /\ procs[p].sends = 1 /\ procs[p].status = 200
    /\ procs["p1"].now = procs["p2"].now
    /\ lastMessage["u1"] = <<procs["p1"].now>>

\* ---------------------------------------------------------------------
\* Concurrent sendText calls.  Every request handler builds its own
\* provider (createWhatsAppClient) and runs its own sendText loop; sleep is
\* a timer promise, so a sleeping call leaves the event loop to the others.
\* procs[p] holds the call of handler p: st is its sendText state, and
\* otherAtStart records the phase of the other handler's call when this
\* one began.
\* ---------------------------------------------------------------------

\* The outcomes drawn for the requests of concurrent calls.
ClientOutcomes ==
    {HttpOk, HttpError(503, <<>>, <<>>), HttpError(429, <<>>, <<>>),
     HttpError(400, <<>>, <<>>), NetError("ETIMEDOUT")}

OtherPid(p) == CHOOSE q \in Pids : q # p

PhaseOf(p) == IF procs[p].pc = "sendText" THEN procs[p].st.phase ELSE "none"

\* Mutant: the attempt counter is a field shared by the calls in progress.
ClientStateSharedAttempt(p, st) ==
    [q \in Pids |->
        IF q = p THEN [procs[q] EXCEPT !.st = st]
        ELSE IF procs[q].pc = "sendText"
        THEN [procs[q] EXCEPT !.st.attempt = st.attempt]
        ELSE procs[q]]

\* The loop variables of a call belong to that call alone.
ClientState(p, st) == [procs EXCEPT ![p].st = st]

ClientStart(p) ==
    /\ procs[p].pc = "idle"
    /\ procs' = [procs EXCEPT ![p] =
                    [pc |-> "sendText", st |-> SendBegin(FALSE),
                     otherAtStart |-> PhaseOf(OtherPid(p))]]
    /\ UNCHANGED <<storeVars, now, resolves, req, call, hist, send, history>>

ClientRequest(p, o) ==
    /\ procs[p].pc = "sendText"
    /\ procs[p].st.phase = "attempting"
    /\ procs[p].st.attempt <= MaxRetries
    /\ procs' = ClientState(p, AttemptStep(procs[p].st, o))
    /\ UNCHANGED <<storeVars, now, resolves, req, call, hist, send, history>>

ClientWake(p) ==
    /\ procs[p].pc = "sendText"
    /\ procs[p].st.phase = "sleeping"
    /\ procs' = ClientState(p, Wake(procs[p].st))
    /\ UNCHANGED <<storeVars, now, resolves, req, call, hist, send, history>>

\* The handler ends once its call has returned or thrown.
ClientEnd(p) ==
    /\ procs[p].pc = "sendText"
    /\ SendFinished(procs[p].st)
    /\ procs' = [procs EXCEPT ![p] = [pc |-> "idle"]]
    /\ UNCHANGED <<storeVars, now, resolves, req, call, hist, send, history>>

ClientAct(p) ==
    \/ ClientStart(p)
    \/ \E o \in ClientOutcomes : ClientRequest(p, o)
    \/ ClientWake(p)
    \/ ClientEnd(p)

InitClients == StoreInit /\ HarnessInit /\ resolves = TRUE

NextClients == \E p \in Pids : ClientAct(p)

\* The event loop serves the second handler whenever it has a step to
\* take; nothing is assumed about the first one, whose timer may be
\* pending for as long as it likes.
SpecClientsFair ==
    /\ InitClients
    /\ [][NextClients]_vars
    /\ WF_vars(\E o \in ClientOutcomes : ClientRequest("p2", o))
    /\ WF_vars(ClientWake("p2"))
    /\ WF_vars(ClientEnd("p2"))

\* The attempt counter of a call follows the requests of that call.
OwnAttemptCounter ==
    \A p \in Pids :
        procs[p].pc = "sendText" =>
            /\ procs[p].st.attempt \in 1..MaxRetries
            /\ procs[p].st.attempt =
                  IF procs[p].st.phase = "attempting"
                  THEN procs[p].st.requests + 1
                  ELSE procs[p].st.requests

\* A step of one handler leaves the call of the other as it was.
StepTouchesOneCall ==
    \A p \in Pids :
        procs'[p] # procs[p] => procs'[OtherPid(p)] = procs[OtherPid(p)]

\* C33: while the sendText call of one request waits for a back-off, the
\* handler of another request runs to completion: the wait shares no state
\* with it (each call has its own attempt counter, and a step of one call
\* leaves the other untouched), and a handler that has begun its call ends
\* it whatever the other one does, sleeping for ever included.
C33_BackoffBlocksNobody ==
    /\ []OwnAttemptCounter
    /\ [][StepTouchesOneCall]_vars
    /\ (procs["p2"].pc = "sendText") ~> (procs["p2"].pc = "idle")

\* The first call is still in its first sleep; the second began while the
\* first slept, made two requests of its own and has returned.
C33_Witness ==
    /\ procs["p1"].pc = "sendText"
    /\ procs["p1"].st.phase = "sleeping"
    /\ procs["p1"].st.attempt = 1
    /\ procs["p2"].pc = "sendText"
    /\ procs["p2"].otherAtStart = "sleeping"
    /\ procs["p2"].st.phase = "returned"
    /\ procs["p2"].st.attempt = 2
    /\ procs["p2"].st.requests = 2

SettingsFields == {"tz", "calendarId"}

ProcessDefault(f) == IF f = "tz" THEN DefaultTz ELSE S_primary

\* A setSettings step writes the fields given and nothing else.
SetSettingsWritesGivenFieldsOnly ==
    call'.op = "setSettings" =>
        /\ \A f \in SettingsFields :
              IF HTruthy(call'.partial, f)
              THEN settings'[call'.uid][f] = call'.partial[f]
              ELSE /\ HHas(settings'[call'.uid], f) <=> HHas(settings[call'.uid], f)
                   /\ HHas(settings[call'.uid], f) =>
                          settings'[call'.uid][f] = settings[call'.uid][f]
        /\ \A u \in Uids \ {call'.uid} : settings'[u] = settings[u]

\* The getSettings that follows returns the stored value or the default.
GetSettingsStoredElseDefault ==
    call'.op = "setSettings" =>
        \A f \in SettingsFields :
            call'.ret[f] = IF HHas(settings'[call'.uid], f)
                           THEN settings'[call'.uid][f]
                           ELSE ProcessDefault(f)

\* C34: setSettings(uid, partial) writes only the fields present in
\* partial (set tz changes the stored timezone and leaves calendarId as it
\* was, and the reverse), and getSettings returns for each field the stored
\* value when there is one and the process default otherwise.
C34_SetSettingsWritesOnlyGivenFields ==
    [][SetSettingsWritesGivenFieldsOnly /\ GetSettingsStoredElseDefault]_vars

\* A calendar was set for a user who has a stored timezone of their own,
\* and one for a user with no stored timezone.
C34_Witness ==
    /\ call.op = "setSettings"
    /\ DOMAIN call.partial = {"calendarId"}
    /\ HHas(settings[call.uid], "tz")
    /\ settings[call.uid]["tz"] = Tz_Tokyo
    /\ call.ret = [tz |-> Tz_Tokyo, calendarId |-> Cal_work]
    /\ \E u \in Uids : /\ ~HHas(settings[u], "tz")
                       /\ HHas(settings[u], "calendarId")
                       /\ GetSettings(settings, u) = [tz |-> DefaultTz, calendarId |-> Cal_work]

\* C35: an executed onboard command restarts onboarding whatever the
\* completion status: for a user whose profile is complete the onboarding
\* state becomes ASK_NAME, the welcome prompt of startOnboarding is handed
\* to sendText (one send), and the stored profile is left as it was.
C35_OnboardCommandRestarts ==
    [][\A u \in Uids :
         (Handled(u) /\ req'.path = "onboard")
         => /\ HasCompletedOnboarding(profile, u)
            /\ GetOnboardingState(onboarding', u).state = ASK_NAME
            /\ IsInOnboarding(onboarding', u)
            /\ req'.started
            /\ Len(req'.sends) = 1
            /\ profile' = profile]_vars

\* The onboard command of a user with a complete profile was executed and
\* its prompt delivered.
C35_Witness ==
    /\ req.kind = "message" /\ req.path = "onboard"
    /\ HasCompletedOnboarding(profile, req.uid)
    /\ GetOnboardingState(onboarding, req.uid).state = ASK_NAME
    /\ req.started
    /\ Len(req.sends) = 1 /\ req.sends[1].result = "sent"
    /\ req.status = 200

\* ---------------------------------------------------------------------
\* Overlapping onboarding calls for one user.  startOnboarding and
\* tryHandle are async functions: between two awaits of one call the other
\* call may run.  tryHandle reads the record (getOnboardingState), then
\* setOnboardingState reads it again and writes the merged record; the last
\* step saves the profile and clears the record.  procs[p] holds the call
\* of p: op and text, seen (the stored record at the call's first read),
\* and the locals the pending await will use.
\* ---------------------------------------------------------------------

RaceUid == "u1"

RaceTexts == {T_Jo_padded, T_email, T_J}

\* setOnboardingState up to its await of store.set: the record is read and
\* the new one built.
SetOnboardingStateRead(ob, uid, state, data) ==
    [state |-> state, data |-> Spread(GetOnboardingState(ob, uid).data, data)]

\* startOnboarding: setOnboardingState(uid, ASK_NAME) has read the record.
RaceStart(p) ==
    /\ procs[p].pc = "idle"
    /\ procs' = [procs EXCEPT ![p] =
                    [pc |-> "set_write", op |-> "startOnboarding", text |-> <<>>,
                     seen |-> onboarding[RaceUid],
                     newState |-> SetOnboardingStateRead(onboarding, RaceUid,
                                                         ASK_NAME, EmptyHash)]]
    /\ UNCHANGED <<storeVars, now, resolves, req, call, hist, send, history>>

\* tryHandle up to its first await after getOnboardingState: it returns
\* (null or a re-prompt), or goes on to setOnboardingState, or to
\* saveUserProfile.
RaceTryHandle(p, text) ==
    LET current == GetOnboardingState(onboarding, RaceUid)
        trimmedText == Trim(text)
        pending(state, data) ==
            [pc |-> "set_read", op |-> "tryHandle", text |-> text,
             seen |-> onboarding[RaceUid], state |-> state, data |-> data]
    IN  /\ procs[p].pc = "idle"
        /\ procs' = [procs EXCEPT ![p] =
              IF current.state = ASK_NAME /\ NameValid(trimmedText)
              THEN pending(ASK_EMAIL, [f \in {"name"} |-> trimmedText])
              ELSE IF current.state = ASK_EMAIL /\ EmailValid(trimmedText)
              THEN pending(ASK_PHONE, [f \in {"email"} |-> trimmedText])
              ELSE IF current.state = ASK_PHONE
              THEN [pc |-> "save", op |-> "tryHandle", text |-> text,
                    seen |-> onboarding[RaceUid],
                    profileData |-> Spread(current.data,
                                           [f \in {"phone"} |-> PhoneOf(trimmedText)])]
              ELSE [pc |-> "idle"]]
        /\ UNCHANGED <<storeVars, now, resolves, req, call, hist, send, history>>

\* setOnboardingState called by tryHandle: await getOnboardingState.
RaceSetRead(p) ==
    /\ procs[p].pc = "set_read"
    /\ procs' = [procs EXCEPT ![p] =
                    [pc |-> "set_write", op |-> procs[p].op, text |-> procs[p].text,
                     seen |-> procs[p].seen,
                     newState |-> SetOnboardingStateRead(onboarding, RaceUid,
                                                         procs[p].state, procs[p].data)]]
    /\ UNCHANGED <<storeVars, now, resolves, req, call, hist, send, history>>

\* setOnboardingState: await store.set, and the call returns.
RaceSetWrite(p) ==
    /\ procs[p].pc = "set_write"
    /\ onboarding' = [onboarding EXCEPT ![RaceUid] = <<JSONstringify(procs[p].newState)>>]
    /\ procs' = [procs EXCEPT ![p] = [pc |-> "idle"]]
    /\ UNCHANGED <<users, settings, profile, gcal, lastMessage, now, resolves,
                   req, call, hist, send, history>>

\* tryHandle at ASK_PHONE: await saveUserProfile.
RaceSave(p) ==
    /\ procs[p].pc = "save"
    /\ profile' = SaveUserProfile(profile, RaceUid, procs[p].profileData)
    /\ procs' = [procs EXCEPT ![p] =
                    [pc |-> "clear", op |-> procs[p].op, text |-> procs[p].text,
                     seen |-> procs[p].seen]]
    /\ UNCHANGED <<users, settings, gcal, onboarding, lastMessage, now, resolves,
                   req, call, hist, send, history>>

\* tryHandle at ASK_PHONE: await clearOnboardingState, and the call returns.
RaceClear(p) ==
    /\ procs[p].pc = "clear"
    /\ onboarding' = ClearOnboardingState(onboarding, RaceUid)
    /\ procs' = [procs EXCEPT ![p] = [pc |-> "idle"]]
    /\ UNCHANGED <<users, settings, profile, gcal, lastMessage, now, resolves,
                   req, call, hist, send, history>>

InitOnboardingRace == StoreInit /\ HarnessInit /\ resolves = TRUE

NextOnboardingRace ==
    \E p \in Pids :
        \/ RaceStart(p)
        \/ \E text \in RaceTexts : RaceTryHandle(p, text)
        \/ RaceSetRead(p)
        \/ RaceSetWrite(p)
        \/ RaceSave(p)
        \/ RaceClear(p)

SpecOnboardingRace == InitOnboardingRace /\ [][NextOnboardingRace]_vars

StateOf(ob, u) == GetOnboardingState(ob, u).state

\* The call of p writes the record in this step.
WritesRecord(p) ==
    /\ procs[p].pc \in {"set_write", "clear"}
    /\ procs'[p] # procs[p]

\* The steps of the state machine: by start to ASK_NAME, by tryHandle on a
\* valid input to the next state.
ListedStep(a, b, op, text) ==
    \/ op = "startOnboarding" /\ b = ASK_NAME
    \/ /\ op = "tryHandle"
       /\ \/ a = ASK_NAME /\ b = ASK_EMAIL /\ NameValid(Trim(text))
          \/ a = ASK_EMAIL /\ b = ASK_PHONE /\ EmailValid(Trim(text))
          \/ a = ASK_PHONE /\ b = DONE

\* C36 (as claimed): in every execution the onboarding state changes only
\* by ASK_NAME -> ASK_EMAIL, ASK_EMAIL -> ASK_PHONE, ASK_PHONE -> DONE (by
\* tryHandle on valid input) and any state -> ASK_NAME (by start); the
\* record is removed only by the step to DONE.
C36_OnlyListedSteps ==
    [][StateOf(onboarding', RaceUid) # StateOf(onboarding, RaceUid)
       => \E p \in Pids :
            /\ WritesRecord(p)
            /\ ListedStep(StateOf(onboarding, RaceUid), StateOf(onboarding', RaceUid),
                          procs[p].op, procs[p].text)]_vars

\* C36 (amended): a change of the onboarding state made by a call whose
\* stored record is still the one the call read is one of the listed
\* steps; a write of a call that another call for the same user has
\* overtaken may carry the state backwards or past a step.
C36_ListedStepsOnObservedRecord ==
    [][StateOf(onboarding', RaceUid) # StateOf(onboarding, RaceUid)
       => \E p \in Pids :
            /\ WritesRecord(p)
            /\ onboarding[RaceUid] = procs[p].seen
               => ListedStep(StateOf(onboarding, RaceUid), StateOf(onboarding', RaceUid),
                             procs[p].op, procs[p].text)]_vars

\* A tryHandle call has just completed the dialog on the record it read,
\* while the other call is between its read and its write.
C36_Witness ==
    /\ StateOf(onboarding, RaceUid) = DONE
    /\ onboarding[RaceUid] = <<>>
    /\ HasCompletedOnboarding(profile, RaceUid)
    /\ \E p \in Pids : procs[p].pc = "idle" /\ procs[OtherPid(p)].pc = "set_write"

\* The stored record of u has the fields its state stands for.
RecordIsConsistent(ob, u) ==
    LET r == GetOnboardingState(ob, u)
        hasName == /\ HHas(r.data, "name")
                   /\ Len(Trim(r.data["name"])) >= 2
        hasEmail == /\ HHas(r.data, "email")
                    /\ EmailRegexTest(r.data["email"])
    IN  /\ r.state = ASK_EMAIL => hasName
        /\ r.state = ASK_PHONE => hasName /\ hasEmail
        /\ r.state = DONE => r.data = EmptyHash

\* C40: in every reachable state, concurrent handlers for the same user
\* included, a stored state of ASK_EMAIL has a name of trimmed length >= 2
\* among the collected fields, a stored state of ASK_PHONE has that name and
\* an e-mail matching the pattern, and a state of DONE has no collected
\* fields.
C40_RecordMatchesItsState == \A u \in Uids : RecordIsConsistent(onboarding, u)

\* ---------------------------------------------------------------------
\* Overlapping addUserIfNew calls for one uid (two deliveries of a new
\* user's first message).
\* ---------------------------------------------------------------------

RegisterBeginSame(p) ==
    /\ procs[p].pc = "idle"
    /\ Len(hist[RaceUid].dir) < MaxDirLog
    /\ procs' = [procs EXCEPT ![p] = [pc |-> "sismember", uid |-> RaceUid]]
    /\ UNCHANGED <<storeVars, now, resolves, req, call, hist, send, history>>

\* setSettings(uid, {tz}) by a command of the user, between the steps of
\* the registrations.
RegisterSetTz(tz) ==
    /\ RaceUid \in users
    /\ HOr(settings[RaceUid], "tz", <<>>) # tz
    /\ settings' = SetSettings(settings, RaceUid, [f \in {"tz"} |-> tz])
    /\ UNCHANGED <<users, profile, gcal, onboarding, lastMessage,
                   now, resolves, req, call, hist, send, asyncVars>>

NextRegisterSame ==
    \/ \E p \in Pids : RegisterBeginSame(p)
    \/ \E p \in Pids : RegisterSismember(p)
    \/ \E p \in Pids : RegisterSaddGet(p)
    \/ \E p \in Pids : RegisterSaddSet(p)
    \/ \E p \in Pids : RegisterDefaults(p)
    \/ \E p \in Pids : RegisterReturn(p)
    \/ \E tz \in {Tz_UTC, Tz_Tokyo} : RegisterSetTz(tz)

SpecRegisterSame == InitRegister /\ [][NextRegisterSame]_vars

\* The call of p has found the uid absent and is writing the default
\* settings, or has written them and is returning true.
WritesDefaults(p) == procs[p].pc \in {"defaults", "return_true"}

\* C37: of the addUserIfNew calls that run at the same time for one uid at
\* most one returns true, and at most one writes the default settings.
C37_OneRegistrationWins ==
    /\ Cardinality({i \in 1..Len(hist[RaceUid].dir) : hist[RaceUid].dir[i] = "new"}) <= 1
    /\ Cardinality({p \in Pids : WritesDefaults(p)}) <= 1

\* ---------------------------------------------------------------------
\* The webhook with a user who keeps answering: the message whose text is a
\* valid name, a valid e-mail and a phone is posted again and again.
\* ---------------------------------------------------------------------

ValidAnswer == Body("messages.upsert", <<"u1">>, T_email)

\* A step in which a valid answer of the user has been handled.
AnswerHandled ==
    /\ req'.kind = "message"
    /\ req'.uid = ValidAnswer.from[1]
    /\ req'.text = ValidAnswer.text

\* The clock moves on while it can, and the user never stops answering.
SpecAnswering ==
    /\ Init
    /\ [][Next]_vars
    /\ WF_vars(\E d \in {TickShort, MinInterval} : Tick(d))
    /\ []<><<AnswerHandled>>_vars

\* C38: whenever the onboarding state of a user is not DONE and the user
\* keeps sending valid answers, the state eventually becomes DONE, for a
\* first-time user and for a user who completed onboarding before and
\* restarted it with the onboard command.
C38_DialogCanBeCompleted ==
    \A u \in Talkers :
        (StateOf(onboarding, u) # DONE) ~> (StateOf(onboarding, u) = DONE)

\* The paths of the command branch that belongs to a lower-cased, trimmed
\* command text.
BranchPaths(lower) ==
    IF lower = S_hi \/ lower = S_hello THEN {"greeting"}
    ELSE IF lower = S_connect THEN {"connect_already_linked", "connect_auth_url"}
    ELSE IF lower = S_onboard THEN {"onboard"}
    ELSE IF lower = S_agenda
    THEN {"agenda_not_linked", "agenda", "agenda_lookup_failed", "agenda_send_failed"}
    ELSE IF lower = S_help THEN {"help"}
    ELSE IF lower = S_whoami THEN {"whoami", "whoami_no_profile"}
    ELSE IF StartsWith(lower, S_set_tz) THEN {"set_tz"}
    ELSE {"fallback"}

\* The request went through the rate limit into the command handling.
ReachedCommandHandling ==
    req.kind = "message" /\ req.checkedRate /\ req.path # "rate_limited"

\* C39: the classifier and the executor agree: a text for which isCommand
\* is true is handled in the command handling by the branch of its command
\* and never by the "didn't understand" fallback, and the fallback reply is
\* sent only for a text that is not a command.
C39_ClassifierAndExecutorAgree ==
    ReachedCommandHandling =>
        /\ req.path \in BranchPaths(Meant(req.text))
        /\ IsCommand(req.text) <=> req.path # "fallback"

\* A padded, capitalised command has taken its branch.
C39_Witness ==
    /\ ReachedCommandHandling
    /\ req.text = T_Connect_padded
    /\ req.path = "connect_auth_url"
    /\ Len(req.sends) = 1

====
